---------------------------- MODULE Spec2Model ----------------------------
(***************************************************************************)
(* Companion Pro: the client of src/app.js (crisis detection, lexicon      *)
(* scoring, reply selection, timeline, transcript, coping tools and        *)
(* export), the POST /api/chat handler of src/server.js and the earlier    *)
(* client of src/unnamed/part_000, as state machines, alone and (page and  *)
(* server) together.                                                       *)
(*                                                                         *)
(* Representation.  A JavaScript string is a TLA+ string; CharTable gives  *)
(* the characters of every string literal the model reads character by     *)
(* character (toLowerCase, RegExp.test, String.match, trim).  The em dash  *)
(* of "Tell me more - I'm listening." is written "-": like the em dash it  *)
(* is neither a word character nor white space, and it stands between two  *)
(* spaces, so the tokenizer treats both alike.                             *)
(* A score is an exact fraction <<n, d>> of hundredths, d > 0, in lowest   *)
(* terms (0.85 is <<85, 1>>, -0.7 is <<-70, 1>>); <<0, 0>> is NaN.         *)
(* An optional value (a reply that may be null, a field that may be        *)
(* missing) is a sequence of length at most one.                           *)
(***************************************************************************)
EXTENDS Integers, Sequences, FiniteSets, TLC

VARIABLES
  messages,            \* children of #messages, as rendered by addMessageToUI
  transcript,          \* let transcript = []
  emotionTimeline,     \* let emotionTimeline = []
  chartData,           \* chartData.labels and chartData.datasets[0].data
  crisisOverlayHidden, \* crisisOverlay.hidden
  typingHidden,        \* typingIndicator.hidden
  useServer,           \* useServerCheckbox.checked
  turns,               \* the invocations of the submit handler, in submit order
  now,                 \* Date.now(), as a logical clock
  breathing,           \* the runs of runBreathingExercise: round and interval
  grounding,           \* the runs of runGroundingExercise: timers fired so far
  downloads,           \* the files the JSON export handed to the browser
  probe,               \* the arguments of direct calls of the pure functions
  calls,               \* the direct calls made so far, with their results
  openaiClient,        \* server: whether an LLM client was configured at start
  requests,            \* server: the POST /api/chat requests received
  sessionLog,          \* server: the lines appended to session_log.jsonl
  early                \* the earlier client (src/unnamed/part_000): its page

chatVars == <<messages, transcript, emotionTimeline, chartData,
              crisisOverlayHidden, typingHidden, useServer, turns, now>>

toolVars == <<breathing, grounding, downloads>>

probeVars == <<probe, calls>>

serverVars == <<openaiClient, requests, sessionLog>>

vars == <<messages, transcript, emotionTimeline, chartData, crisisOverlayHidden,
          typingHidden, useServer, turns, now, breathing, grounding, downloads,
          probe, calls, openaiClient, requests, sessionLog, early>>

(***************************************************************************)
(* Bounds of the model.                                                    *)
(***************************************************************************)
MaxTurns == 2

PriorTurns == 39

\* The gestures of one session: turns submitted, exercises started, exports.
MaxGestures == 2

\* The words of a text handed to a pure function directly.
MaxWords == 2

\* The direct calls of pure functions in one run.
MaxCalls == 2

\* The requests the server receives.
MaxRequests == 2

(***************************************************************************)
(* Strings and characters.                                                 *)
(***************************************************************************)
CharTable ==
   ("I want to kill myself" :> <<"I"," ","w","a","n","t"," ","t","o"," ","k","i","l","l"," ","m","y","s","e","l","f">>)
   @@ ("I feel sad and lonely" :> <<"I"," ","f","e","e","l"," ","s","a","d"," ","a","n","d"," ","l","o","n","e","l","y">>)
   @@ ("I am so happy and excited today" :> <<"I"," ","a","m"," ","s","o"," ","h","a","p","p","y"," ","a","n","d"," ","e","x","c","i","t","e","d"," ","t","o","d","a","y">>)
   @@ ("okay" :> <<"o","k","a","y">>)
   @@ ("frustrated" :> <<"f","r","u","s","t","r","a","t","e","d">>)
   @@ (" okay " :> <<" ","o","k","a","y"," ">>)
   @@ ("   " :> <<" "," "," ">>)
   @@ ("suicid" :> <<"s","u","i","c","i","d">>)
   @@ ("kill myself" :> <<"k","i","l","l"," ","m","y","s","e","l","f">>)
   @@ ("end my life" :> <<"e","n","d"," ","m","y"," ","l","i","f","e">>)
   @@ ("want to die" :> <<"w","a","n","t"," ","t","o"," ","d","i","e">>)
   @@ ("hurting myself" :> <<"h","u","r","t","i","n","g"," ","m","y","s","e","l","f">>)
   @@ ("cant go on" :> <<"c","a","n","t"," ","g","o"," ","o","n">>)
   @@ ("no reason to live" :> <<"n","o"," ","r","e","a","s","o","n"," ","t","o"," ","l","i","v","e">>)
   @@ ("die by myself" :> <<"d","i","e"," ","b","y"," ","m","y","s","e","l","f">>)
   @@ ("happy" :> <<"h","a","p","p","y">>)
   @@ ("joy" :> <<"j","o","y">>)
   @@ ("glad" :> <<"g","l","a","d">>)
   @@ ("excited" :> <<"e","x","c","i","t","e","d">>)
   @@ ("good" :> <<"g","o","o","d">>)
   @@ ("sad" :> <<"s","a","d">>)
   @@ ("depressed" :> <<"d","e","p","r","e","s","s","e","d">>)
   @@ ("lonely" :> <<"l","o","n","e","l","y">>)
   @@ ("anxious" :> <<"a","n","x","i","o","u","s">>)
   @@ ("worried" :> <<"w","o","r","r","i","e","d">>)
   @@ ("panic" :> <<"p","a","n","i","c">>)
   @@ ("overwhelmed" :> <<"o","v","e","r","w","h","e","l","m","e","d">>)
   @@ ("angry" :> <<"a","n","g","r","y">>)
   @@ ("fine" :> <<"f","i","n","e">>)
   @@ ("I'm sorry you're going through such a hard time. Would you like a grounding or breathing exercise now?" :> <<"I","'","m"," ","s","o","r","r","y"," ","y","o","u","'","r","e"," ","g","o","i","n","g"," ","t","h","r","o","u","g","h"," ","s","u","c","h"," ","a"," ","h","a","r","d"," ","t","i","m","e","."," ","W","o","u","l","d"," ","y","o","u"," ","l","i","k","e"," ","a"," ","g","r","o","u","n","d","i","n","g"," ","o","r"," ","b","r","e","a","t","h","i","n","g"," ","e","x","e","r","c","i","s","e"," ","n","o","w","?">>)
   @@ ("I hear that this is difficult. Tell me more about what's been on your mind." :> <<"I"," ","h","e","a","r"," ","t","h","a","t"," ","t","h","i","s"," ","i","s"," ","d","i","f","f","i","c","u","l","t","."," ","T","e","l","l"," ","m","e"," ","m","o","r","e"," ","a","b","o","u","t"," ","w","h","a","t","'","s"," ","b","e","e","n"," ","o","n"," ","y","o","u","r"," ","m","i","n","d",".">>)
   @@ ("It's great to hear some positivity. What do you think helped you feel this way?" :> <<"I","t","'","s"," ","g","r","e","a","t"," ","t","o"," ","h","e","a","r"," ","s","o","m","e"," ","p","o","s","i","t","i","v","i","t","y","."," ","W","h","a","t"," ","d","o"," ","y","o","u"," ","t","h","i","n","k"," ","h","e","l","p","e","d"," ","y","o","u"," ","f","e","e","l"," ","t","h","i","s"," ","w","a","y","?">>)
   @@ ("Tell me more - I'm listening." :> <<"T","e","l","l"," ","m","e"," ","m","o","r","e"," ","-"," ","I","'","m"," ","l","i","s","t","e","n","i","n","g",".">>)
   @@ ("That sounds important. How long have you been feeling that way?" :> <<"T","h","a","t"," ","s","o","u","n","d","s"," ","i","m","p","o","r","t","a","n","t","."," ","H","o","w"," ","l","o","n","g"," ","h","a","v","e"," ","y","o","u"," ","b","e","e","n"," ","f","e","e","l","i","n","g"," ","t","h","a","t"," ","w","a","y","?">>)
   @@ ("Thanks for sharing that with me. What would be helpful right now?" :> <<"T","h","a","n","k","s"," ","f","o","r"," ","s","h","a","r","i","n","g"," ","t","h","a","t"," ","w","i","t","h"," ","m","e","."," ","W","h","a","t"," ","w","o","u","l","d"," ","b","e"," ","h","e","l","p","f","u","l"," ","r","i","g","h","t"," ","n","o","w","?">>)
   @@ ("Sorry, I'm having trouble responding right now." :> <<"S","o","r","r","y",","," ","I","'","m"," ","h","a","v","i","n","g"," ","t","r","o","u","b","l","e"," ","r","e","s","p","o","n","d","i","n","g"," ","r","i","g","h","t"," ","n","o","w",".">>)
   @@ ("I'm concerned for your safety. If you are in immediate danger, please call your local emergency number now. Would you like crisis line information or someone to contact?" :> <<"I","'","m"," ","c","o","n","c","e","r","n","e","d"," ","f","o","r"," ","y","o","u","r"," ","s","a","f","e","t","y","."," ","I","f"," ","y","o","u"," ","a","r","e"," ","i","n"," ","i","m","m","e","d","i","a","t","e"," ","d","a","n","g","e","r",","," ","p","l","e","a","s","e"," ","c","a","l","l"," ","y","o","u","r"," ","l","o","c","a","l"," ","e","m","e","r","g","e","n","c","y"," ","n","u","m","b","e","r"," ","n","o","w","."," ","W","o","u","l","d"," ","y","o","u"," ","l","i","k","e"," ","c","r","i","s","i","s"," ","l","i","n","e"," ","i","n","f","o","r","m","a","t","i","o","n"," ","o","r"," ","s","o","m","e","o","n","e"," ","t","o"," ","c","o","n","t","a","c","t","?">>)
   @@ ("I'm sorry you're feeling sad. Want to tell me more about what's been happening lately?" :> <<"I","'","m"," ","s","o","r","r","y"," ","y","o","u","'","r","e"," ","f","e","e","l","i","n","g"," ","s","a","d","."," ","W","a","n","t"," ","t","o"," ","t","e","l","l"," ","m","e"," ","m","o","r","e"," ","a","b","o","u","t"," ","w","h","a","t","'","s"," ","b","e","e","n"," ","h","a","p","p","e","n","i","n","g"," ","l","a","t","e","l","y","?">>)
   @@ ("I hear you're feeling anxious. Would you like a short breathing exercise? We can try one together." :> <<"I"," ","h","e","a","r"," ","y","o","u","'","r","e"," ","f","e","e","l","i","n","g"," ","a","n","x","i","o","u","s","."," ","W","o","u","l","d"," ","y","o","u"," ","l","i","k","e"," ","a"," ","s","h","o","r","t"," ","b","r","e","a","t","h","i","n","g"," ","e","x","e","r","c","i","s","e","?"," ","W","e"," ","c","a","n"," ","t","r","y"," ","o","n","e"," ","t","o","g","e","t","h","e","r",".">>)
   @@ ("Thanks for sharing that - I'm listening. Can you tell me more?" :> <<"T","h","a","n","k","s"," ","f","o","r"," ","s","h","a","r","i","n","g"," ","t","h","a","t"," ","-"," ","I","'","m"," ","l","i","s","t","e","n","i","n","g","."," ","C","a","n"," ","y","o","u"," ","t","e","l","l"," ","m","e"," ","m","o","r","e","?">>)
   @@ ("That sounds important. How long have you felt this way?" :> <<"T","h","a","t"," ","s","o","u","n","d","s"," ","i","m","p","o","r","t","a","n","t","."," ","H","o","w"," ","l","o","n","g"," ","h","a","v","e"," ","y","o","u"," ","f","e","l","t"," ","t","h","i","s"," ","w","a","y","?">>)
   @@ ("I appreciate you telling me this. What would help you right now?" :> <<"I"," ","a","p","p","r","e","c","i","a","t","e"," ","y","o","u"," ","t","e","l","l","i","n","g"," ","m","e"," ","t","h","i","s","."," ","W","h","a","t"," ","w","o","u","l","d"," ","h","e","l","p"," ","y","o","u"," ","r","i","g","h","t"," ","n","o","w","?">>)
   @@ ("kill" :> <<"k","i","l","l">>)
   @@ ("MYSELF" :> <<"M","Y","S","E","L","F">>)
   @@ ("Suicidal" :> <<"S","u","i","c","i","d","a","l">>)
   @@ ("sad," :> <<"s","a","d",",">>)
   @@ ("constructor" :> <<"c","o","n","s","t","r","u","c","t","o","r">>)
   @@ ("  That sounds hard. I'm here with you.  " :> <<" "," ","T","h","a","t"," ","s","o","u","n","d","s"," ","h","a","r","d","."," ","I","'","m"," ","h","e","r","e"," ","w","i","t","h"," ","y","o","u","."," "," ">>)
   @@ ("That sounds hard. I'm here with you." :> <<"T","h","a","t"," ","s","o","u","n","d","s"," ","h","a","r","d","."," ","I","'","m"," ","h","e","r","e"," ","w","i","t","h"," ","y","o","u",".">>)
   @@ ("there is no reason to live" :> <<"t","h","e","r","e"," ","i","s"," ","n","o"," ","r","e","a","s","o","n"," ","t","o"," ","l","i","v","e">>)
   @@ ("please help, I am anxious" :> <<"p","l","e","a","s","e"," ","h","e","l","p",","," ","I"," ","a","m"," ","a","n","x","i","o","u","s">>)
   @@ ("help" :> <<"h","e","l","p">>)
   @@ ("anx" :> <<"a","n","x">>)
   @@ ("depress" :> <<"d","e","p","r","e","s","s">>)
   @@ ("I would rather die by myself" :> <<"I"," ","w","o","u","l","d"," ","r","a","t","h","e","r"," ","d","i","e"," ","b","y"," ","m","y","s","e","l","f">>)
   @@ ("cant cope anymore" :> <<"c","a","n","t"," ","c","o","p","e"," ","a","n","y","m","o","r","e">>)
   @@ ("i cant cope anymore" :> <<"i"," ","c","a","n","t"," ","c","o","p","e"," ","a","n","y","m","o","r","e">>)
   @@ (" I feel sad and lonely " :> <<" ","I"," ","f","e","e","l"," ","s","a","d"," ","a","n","d"," ","l","o","n","e","l","y"," ">>)
   @@ ("say \"okay\"" :> <<"s","a","y"," ","\"","o","k","a","y","\"">>)

Chars(s) == IF s = "" THEN <<>> ELSE CharTable[s]

\* The string with the given characters.
FromChars(cs) ==
  IF cs = <<>> THEN "" ELSE CHOOSE s \in DOMAIN CharTable : CharTable[s] = cs

UpperToLower ==
   ("A" :> "a") @@ ("B" :> "b") @@ ("C" :> "c") @@ ("D" :> "d") @@ ("E" :> "e")
   @@ ("F" :> "f") @@ ("G" :> "g") @@ ("H" :> "h") @@ ("I" :> "i") @@ ("J" :> "j")
   @@ ("K" :> "k") @@ ("L" :> "l") @@ ("M" :> "m") @@ ("N" :> "n") @@ ("O" :> "o")
   @@ ("P" :> "p") @@ ("Q" :> "q") @@ ("R" :> "r") @@ ("S" :> "s") @@ ("T" :> "t")
   @@ ("U" :> "u") @@ ("V" :> "v") @@ ("W" :> "w") @@ ("X" :> "x") @@ ("Y" :> "y")
   @@ ("Z" :> "z")

LowerChar(c) == IF c \in DOMAIN UpperToLower THEN UpperToLower[c] ELSE c

\* String.prototype.toLowerCase, on characters.
toLowerCase(cs) == [i \in 1..Len(cs) |-> LowerChar(cs[i])]

\* \s of a regular expression.
IsSpace(c) == c \in {" ", "\t", "\n", "\r"}

\* \w of a regular expression.
WordChars ==
  {"a", "b", "c", "d", "e", "f", "g", "h", "i", "j", "k", "l", "m", "n", "o",
   "p", "q", "r", "s", "t", "u", "v", "w", "x", "y", "z",
   "A", "B", "C", "D", "E", "F", "G", "H", "I", "J", "K", "L", "M", "N", "O",
   "P", "Q", "R", "S", "T", "U", "V", "W", "X", "Y", "Z",
   "0", "1", "2", "3", "4", "5", "6", "7", "8", "9", "_"}

IsWordChar(c) == c \in WordChars

\* String.prototype.trim, on characters.
RECURSIVE TrimLeft(_)
TrimLeft(cs) ==
  IF cs # <<>> /\ IsSpace(Head(cs)) THEN TrimLeft(Tail(cs)) ELSE cs

RECURSIVE TrimRight(_)
TrimRight(cs) ==
  IF cs # <<>> /\ IsSpace(cs[Len(cs)])
  THEN TrimRight(SubSeq(cs, 1, Len(cs) - 1))
  ELSE cs

trim(s) == FromChars(TrimRight(TrimLeft(Chars(s))))

\* The strings of the model, and trim tabulated over them.
Strings == (DOMAIN CharTable) \cup {""}

Trimmed == [s \in Strings |-> trim(s)]

\* A literal pattern (no metacharacters) occurs in cs; the i flag compares
\* both sides in lower case.
RegexTest(pattern, cs) ==
  LET p == toLowerCase(Chars(pattern))
      t == toLowerCase(cs)
  IN  \E i \in 1..(Len(t) - Len(p) + 1) : SubSeq(t, i, i + Len(p) - 1) = p

(***************************************************************************)
(* Configuration (CONFIG) and the lexicon (LEXICON).                       *)
(***************************************************************************)
\* Mutant of CRISIS_PATTERNS: the list lacks /suicid/i and /kill myself/i,
\* which the server's list has.
CRISIS_PATTERNS_Stale ==
  <<"end my life", "want to die", "hurting myself", "cant go on",
    "no reason to live", "die by myself">>

CRISIS_PATTERNS ==
  <<"suicid", "kill myself", "end my life", "want to die", "hurting myself",
    "cant go on", "no reason to live", "die by myself">>

USE_SERVER_BY_DEFAULT == TRUE

LEXICON ==
   ("happy" :> [score |-> 90, emotion |-> "joy"])
   @@ ("joy" :> [score |-> 90, emotion |-> "joy"])
   @@ ("glad" :> [score |-> 60, emotion |-> "joy"])
   @@ ("excited" :> [score |-> 80, emotion |-> "joy"])
   @@ ("good" :> [score |-> 40, emotion |-> "calm"])
   @@ ("sad" :> [score |-> -80, emotion |-> "sadness"])
   @@ ("depressed" :> [score |-> -90, emotion |-> "sadness"])
   @@ ("lonely" :> [score |-> -60, emotion |-> "sadness"])
   @@ ("anxious" :> [score |-> -70, emotion |-> "anxiety"])
   @@ ("worried" :> [score |-> -60, emotion |-> "anxiety"])
   @@ ("panic" :> [score |-> -85, emotion |-> "anxiety"])
   @@ ("overwhelmed" :> [score |-> -75, emotion |-> "overwhelm"])
   @@ ("angry" :> [score |-> -60, emotion |-> "anger"])
   @@ ("frustrated" :> [score |-> -50, emotion |-> "anger"])
   @@ ("okay" :> [score |-> 0, emotion |-> "neutral"])
   @@ ("fine" :> [score |-> 10, emotion |-> "neutral"])

(***************************************************************************)
(* Scores: exact fractions of hundredths.                                  *)
(***************************************************************************)
Abs(n) == IF n < 0 THEN -n ELSE n

RECURSIVE GCD(_, _)
GCD(a, b) == IF b = 0 THEN a ELSE GCD(b, a % b)

NaN == <<0, 0>>

\* The count of a score object literal written without one
\* ({ score: -1, emotion: 'crisis' }): undefined.
UNDEFINED == -1

IsNaN(x) == x[2] = 0

\* n / d, for d > 0.
Frac(n, d) == LET g == GCD(Abs(n), d) IN <<n \div g, d \div g>>

Num(h) == <<h, 1>>

\* x < y and x <= y of JavaScript numbers: false when either is NaN.
Lt(x, y) == ~IsNaN(x) /\ ~IsNaN(y) /\ x[1] * y[2] < y[1] * x[2]

Le(x, y) == ~IsNaN(x) /\ ~IsNaN(y) /\ x[1] * y[2] <= y[1] * x[2]

\* Math.min and Math.max of two numbers: NaN when either is NaN.
MathMin(x, y) == IF IsNaN(x) \/ IsNaN(y) THEN NaN ELSE IF Lt(y, x) THEN y ELSE x

MathMax(x, y) == IF IsNaN(x) \/ IsNaN(y) THEN NaN ELSE IF Lt(x, y) THEN y ELSE x

(***************************************************************************)
(* detectCrisis.                                                           *)
(***************************************************************************)
\* Mutant of detectCrisisOf: neither toLowerCase nor the i flag.
detectCrisisOf_CaseSensitive(cs) ==
  /\ cs # <<>>
  /\ \E k \in 1..Len(CRISIS_PATTERNS) :
       \E i \in 1..(Len(cs) - Len(Chars(CRISIS_PATTERNS[k])) + 1) :
         SubSeq(cs, i, i + Len(Chars(CRISIS_PATTERNS[k])) - 1)
           = Chars(CRISIS_PATTERNS[k])

\* detectCrisis, of the characters of its argument.
detectCrisisOf(cs) ==
  IF cs = <<>> THEN FALSE
  ELSE LET t == toLowerCase(cs)
       IN  \E k \in 1..Len(CRISIS_PATTERNS) : RegexTest(CRISIS_PATTERNS[k], t)

detectCrisis(text) == detectCrisisOf(Chars(text))

\* detectCrisis tabulated over the strings of the model.
IsCrisis == [s \in Strings |-> detectCrisis(s)]

(***************************************************************************)
(* scoreText.                                                              *)
(***************************************************************************)
\* \b between cs[p] and cs[p + 1] (p = 0 is the start, p = Len(cs) the end).
WordBoundary(cs, p) ==
  LET before == p >= 1 /\ IsWordChar(cs[p])
      after  == p < Len(cs) /\ IsWordChar(cs[p + 1])
  IN  before # after

\* The end of the run of non-space characters that starts at i.
RECURSIVE RunEnd(_, _)
RunEnd(cs, i) ==
  IF i < Len(cs) /\ ~IsSpace(cs[i + 1]) THEN RunEnd(cs, i + 1) ELSE i

\* cs.match(/\b[^\s]+\b/g) || [], scanning from position i: the leftmost match
\* starts at a word boundary on a non-space character, takes the longest run
\* of non-space characters and gives characters back until it ends at a word
\* boundary; the search resumes after the match.
RECURSIVE MatchTokens(_, _)
MatchTokens(cs, i) ==
  IF i > Len(cs) THEN <<>>
  ELSE IF IsSpace(cs[i]) \/ ~WordBoundary(cs, i - 1) THEN MatchTokens(cs, i + 1)
  ELSE LET ends == {j \in i..RunEnd(cs, i) : WordBoundary(cs, j)}
       IN  IF ends = {} THEN MatchTokens(cs, i + 1)
           ELSE LET j == CHOOSE e \in ends : \A f \in ends : f <= e
                IN  <<SubSeq(cs, i, j)>> \o MatchTokens(cs, j + 1)

\* Own properties of LEXICON are looked up by token; "constructor" and
\* "__proto__" are inherited from Object.prototype: LEXICON[tok] is then an
\* object without score or emotion.
InheritedKeys == {<<"c","o","n","s","t","r","u","c","t","o","r">>,
                  <<"_","_","p","r","o","t","o","_","_">>}

LexKeys(tok) == {k \in DOMAIN LEXICON : Chars(k) = tok}

\* Mutant of ScoreLoop_LastWins: >= instead of >, so that the last of several tokens
\* of equal absolute valence wins.
RECURSIVE ScoreLoop_LastWins(_, _, _)
ScoreLoop_LastWins(tokens, k, acc) ==
  IF k > Len(tokens) THEN acc
  ELSE LET tok == tokens[k] IN
       IF LexKeys(tok) # {}
       THEN LET e == LEXICON[CHOOSE key \in LexKeys(tok) : TRUE]
                higher == Abs(e.score) >= acc.highestAbs
            IN  ScoreLoop_LastWins(tokens, k + 1,
                  [sum |-> acc.sum + e.score, nan |-> acc.nan,
                   count |-> acc.count + 1,
                   dominantEmotion |->
                     IF higher THEN <<e.emotion>> ELSE acc.dominantEmotion,
                   highestAbs |->
                     IF higher THEN Abs(e.score) ELSE acc.highestAbs])
       ELSE IF tok \in InheritedKeys
       THEN ScoreLoop_LastWins(tokens, k + 1,
              [acc EXCEPT !.nan = TRUE, !.count = @ + 1])
       ELSE ScoreLoop_LastWins(tokens, k + 1, acc)

\* tokens.forEach(...): sum in hundredths (nan once undefined was added),
\* count, dominantEmotion (optional) and highestAbs in hundredths.
RECURSIVE ScoreLoop(_, _, _)
ScoreLoop(tokens, k, acc) ==
  IF k > Len(tokens) THEN acc
  ELSE LET tok == tokens[k] IN
       IF LexKeys(tok) # {}
       THEN LET e == LEXICON[CHOOSE key \in LexKeys(tok) : TRUE]
                higher == Abs(e.score) > acc.highestAbs
            IN  ScoreLoop(tokens, k + 1,
                  [sum |-> acc.sum + e.score, nan |-> acc.nan,
                   count |-> acc.count + 1,
                   dominantEmotion |->
                     IF higher THEN <<e.emotion>> ELSE acc.dominantEmotion,
                   highestAbs |->
                     IF higher THEN Abs(e.score) ELSE acc.highestAbs])
       ELSE IF tok \in InheritedKeys
       THEN ScoreLoop(tokens, k + 1,
              [acc EXCEPT !.nan = TRUE, !.count = @ + 1])
       ELSE ScoreLoop(tokens, k + 1, acc)

\* The number 0 that scoreText returns for an empty text (line 146): not an
\* object; reading its score, emotion or count gives undefined, written <<>>
\* for the score and "" for the emotion.
NUMBER_ZERO == [score |-> <<>>, emotion |-> "", count |-> UNDEFINED]

\* scoreText, of the characters of its argument.
scoreTextOf(cs) ==
  IF cs = <<>> THEN NUMBER_ZERO
  ELSE
  LET tokens == MatchTokens(toLowerCase(cs), 1)
      acc == ScoreLoop(tokens, 1,
               [sum |-> 0, nan |-> FALSE, count |-> 0,
                dominantEmotion |-> <<>>, highestAbs |-> 0])
      avg == IF acc.count = 0 THEN Num(0)
             ELSE IF acc.nan THEN NaN
             ELSE Frac(acc.sum, acc.count)
  IN  [score |-> MathMax(Num(-100), MathMin(Num(100), avg)),
       emotion |-> IF acc.dominantEmotion = <<>> THEN "neutral"
                   ELSE acc.dominantEmotion[1],
       count |-> acc.count]

scoreText(text) == scoreTextOf(Chars(text))

\* scoreText tabulated over the non-empty strings of the model.
Scored == [s \in DOMAIN CharTable |-> scoreText(s)]

(***************************************************************************)
(* The fixed messages of the client.                                       *)
(***************************************************************************)
REPLY_HIGH_CONCERN ==
  "I'm sorry you're going through such a hard time. Would you like a grounding or breathing exercise now?"

REPLY_MODERATE_CONCERN ==
  "I hear that this is difficult. Tell me more about what's been on your mind."

REPLY_POSITIVE ==
  "It's great to hear some positivity. What do you think helped you feel this way?"

generics ==
  <<"Tell me more - I'm listening.",
    "That sounds important. How long have you been feeling that way?",
    "Thanks for sharing that with me. What would be helpful right now?">>

REPLY_TROUBLE == "Sorry, I'm having trouble responding right now."

ESCALATION_MESSAGE ==
  "I hear you. I'm worried about your safety. Please consider contacting emergency services or a crisis line now."

CRISIS_TRANSCRIPT_TEXT == "Crisis escalation message"

GREETING_MESSAGE ==
  "Hello - I'm here to listen. You can type anything, try a coping tool, or toggle server LLM for richer responses."

TIMELINE_MAX == 80

(***************************************************************************)
(* Rendering, escalation, transcript and timeline.  A session s is the     *)
(* record of #messages, transcript, emotionTimeline and                   *)
(* crisisOverlay.hidden that these functions read and write.               *)
(***************************************************************************)
\* addMessageToUI(text, sender, meta): one more child of #messages.
\* The meta line shows meta.emotion || 'sentiment'; a meta written without
\* emotion has emotion "".
addMessageToUI(ms, text, sender, meta) ==
  Append(ms, [sender |-> sender, text |-> text, ts |-> meta.ts,
              score |-> meta.score,
              emotion |-> IF meta.emotion = "" THEN "sentiment" ELSE meta.emotion])

\* Mutant of escalateToCrisis: nothing is done while the overlay is open.
escalateToCrisis_OncePerOverlay(s, ts) ==
  IF s.hidden
  THEN [s EXCEPT !.hidden = FALSE,
                 !.messages = addMessageToUI(@, ESCALATION_MESSAGE, "bot",
                                [ts |-> ts, score |-> Num(-100),
                                 emotion |-> "crisis"])]
  ELSE s

\* Mutant of escalateToCrisis: the overlay is toggled instead of shown.
escalateToCrisis_Toggle(s, ts) ==
  [s EXCEPT !.hidden = ~s.hidden,
            !.messages = addMessageToUI(@, ESCALATION_MESSAGE, "bot",
                           [ts |-> ts, score |-> Num(-100), emotion |-> "crisis"])]

\* escalateToCrisis().
escalateToCrisis(s, ts) ==
  [s EXCEPT !.hidden = FALSE,
            !.messages = addMessageToUI(@, ESCALATION_MESSAGE, "bot",
                           [ts |-> ts, score |-> Num(-100), emotion |-> "crisis"])]

\* Mutant of pushToTranscript: unshift() instead of push().
pushToTranscript_Unshift(tr, sender, text, ts, scoreObj) ==
  <<[sender |-> sender, text |-> text, ts |-> ts,
     score |-> scoreObj.score, emotion |-> scoreObj.emotion,
     lexCount |-> scoreObj.count]>> \o tr

\* pushToTranscript(sender, text, scoreObj).
pushToTranscript(tr, sender, text, ts, scoreObj) ==
  Append(tr, [sender |-> sender, text |-> text, ts |-> ts,
              score |-> scoreObj.score, emotion |-> scoreObj.emotion,
              lexCount |-> scoreObj.count])

\* Mutant of ShiftIfOver: pop() instead of shift(), dropping the newest event.
ShiftIfOver_DropNewest(tl) ==
  IF Len(tl) > TIMELINE_MAX THEN SubSeq(tl, 1, Len(tl) - 1) ELSE tl

\* emotionTimeline.shift() when the timeline has grown past the window.
ShiftIfOver(tl) == IF Len(tl) > TIMELINE_MAX THEN Tail(tl) ELSE tl

\* pushToTimeline(scoreObj): emotionTimeline after the push and the shift.
pushToTimeline(tl, ts, scoreObj) ==
  ShiftIfOver(Append(tl, [t |-> ts, score |-> scoreObj.score,
                          emotion |-> scoreObj.emotion,
                          count |-> scoreObj.count]))

\* chartData as pushToTimeline recomputes it from emotionTimeline.
ChartOf(tl) ==
  [labels |-> [k \in 1..Len(tl) |-> tl[k].t],
   data   |-> [k \in 1..Len(tl) |-> tl[k].score]]

\* addMessageToUI, pushToTranscript and pushToTimeline of a message with its
\* score object (lines 241-243, 275-277, 289-291, 301-303).
RenderAndLog(s, sender, text, ts, scoreObj) ==
  [s EXCEPT !.messages = addMessageToUI(@, text, sender,
                           [ts |-> ts, score |-> scoreObj.score,
                            emotion |-> scoreObj.emotion]),
            !.transcript = pushToTranscript(@, sender, text, ts, scoreObj),
            !.emotionTimeline = pushToTimeline(@, ts, scoreObj)]

(***************************************************************************)
(* localReply(userText, scoreObj); rnd is Math.floor(Math.random() * 3).   *)
(* The result is the reply (none for null) and whether escalateToCrisis    *)
(* was called.                                                             *)
(***************************************************************************)
\* Mutant of localReply: < -0.2 and > 0.4 written <= and >=.
localReply_InclusiveBounds(userText, scoreObj, rnd) ==
  IF IsCrisis[userText]
  THEN [reply |-> <<>>, escalated |-> TRUE]
  ELSE [reply |->
          IF Le(scoreObj.score, Num(-60)) THEN <<REPLY_HIGH_CONCERN>>
          ELSE IF Le(scoreObj.score, Num(-20)) THEN <<REPLY_MODERATE_CONCERN>>
          ELSE IF Le(Num(40), scoreObj.score) THEN <<REPLY_POSITIVE>>
          ELSE <<generics[rnd + 1]>>,
        escalated |-> FALSE]

localReply(userText, scoreObj, rnd) ==
  IF IsCrisis[userText]
  THEN [reply |-> <<>>, escalated |-> TRUE]
  ELSE [reply |->
          IF Le(scoreObj.score, Num(-60)) THEN <<REPLY_HIGH_CONCERN>>
          ELSE IF Lt(scoreObj.score, Num(-20)) THEN <<REPLY_MODERATE_CONCERN>>
          ELSE IF Lt(Num(40), scoreObj.score) THEN <<REPLY_POSITIVE>>
          ELSE <<generics[rnd + 1]>>,
        escalated |-> FALSE]

\* if (reply): a string that is neither null nor empty.
Truthy(opt) == opt # <<>> /\ opt[1] # ""

\* The side effect of localReply, which escalates before it returns null.
AfterLocalReply(s, lr, ts) == IF lr.escalated THEN escalateToCrisis(s, ts) ELSE s

\* Mutant of ApplyLocalReply: the reply is computed but never rendered or
\* logged.
ApplyLocalReply_Silent(s, lr, ts) == AfterLocalReply(s, lr, ts)

\* Lines 286-292 and 298-304, given lr = localReply(text, scoreObj).
ApplyLocalReply(s, lr, ts) ==
  IF Truthy(lr.reply)
  THEN RenderAndLog(AfterLocalReply(s, lr, ts), "bot", lr.reply[1], ts,
                    Scored[lr.reply[1]])
  ELSE AfterLocalReply(s, lr, ts)

(***************************************************************************)
(* The remote collaborator: what fetch and resp.json() can produce.        *)
(***************************************************************************)
SERVER_SAFE_TEXT ==
  "I'm concerned for your safety. If you are in immediate danger, please call your local emergency number now. Would you like crisis line information or someone to contact?"

SERVER_SAD_REPLY ==
  "I'm sorry you're feeling sad. Want to tell me more about what's been happening lately?"

\* Bodies that parse to an object whose reply, if any, is a string.
ResponseBodies ==
  [reply  : {<<>>, <<"">>, <<SERVER_SAFE_TEXT>>, <<SERVER_SAD_REPLY>>},
   safety : {<<>>, <<[crisis |-> TRUE]>>, <<[crisis |-> FALSE]>>}]

\* Mutant of RemoteReplyText: a generic prompt stands in for a missing reply.
RemoteReplyText_Generic(data) ==
  IF Truthy(data.reply) THEN data.reply[1] ELSE generics[1]

\* const reply = data.reply || "Sorry, ...".
RemoteReplyText(data) ==
  IF Truthy(data.reply) THEN data.reply[1] ELSE REPLY_TROUBLE

\* data.safety && data.safety.crisis.
RemoteCrisis(data) == data.safety # <<>> /\ data.safety[1].crisis

\* Mutant of AfterRemoteReply: the safety flag of the response is ignored.
AfterRemoteReply_FlagIgnored(s, data, ts) == s

\* Lines 280-282.
AfterRemoteReply(s, data, ts) ==
  IF RemoteCrisis(data) THEN escalateToCrisis(s, ts) ELSE s

\* Lines 273-282, given reply = RemoteReplyText(data).
ApplyRemoteReply(s, data, reply, ts) ==
  AfterRemoteReply(RenderAndLog(s, "bot", reply, ts, Scored[reply]), data, ts)

\* Mutant of ApplyCrisis: the escalation is not logged in the transcript.
ApplyCrisis_Unlogged(s, ts) == escalateToCrisis(s, ts)

\* Lines 254-255.
ApplyCrisis(s, ts) ==
  [escalateToCrisis(s, ts) EXCEPT
     !.transcript = pushToTranscript(@, "bot", CRISIS_TRANSCRIPT_TEXT, ts,
                      [score |-> Num(-100), emotion |-> "crisis",
                       count |-> UNDEFINED])]

(***************************************************************************)
(* The submit handler.  A turn is one invocation; pc is the await it is    *)
(* suspended at.  path, failure, reply, logged, shown, plotted and overlay *)
(* record what the invocation did on completing; the program does not read *)
(* them.                                                                   *)
(***************************************************************************)
\* What the user may have typed: texts, with or without surrounding blanks.
Inputs ==
  {"", "   ", " okay ", "I want to kill myself", "I feel sad and lonely",
   "I am so happy and excited today", "frustrated"}

\* The user's gestures so far: turns submitted, exercises started, exports.
Gestures == Len(turns) + Len(breathing) + Len(grounding) + Len(downloads)

Session ==
  [messages |-> messages, transcript |-> transcript,
   emotionTimeline |-> emotionTimeline, hidden |-> crisisOverlayHidden]

\* The session becomes s.
Commit(s) ==
  /\ messages' = s.messages
  /\ transcript' = s.transcript
  /\ emotionTimeline' = s.emotionTimeline
  /\ chartData' = ChartOf(s.emotionTimeline)
  /\ crisisOverlayHidden' = s.hidden

\* request is the place in requests of the request this turn's fetch made,
\* once a modelled server has received it.
NewTurn(text, scoreObj) ==
  [text |-> text, scoreObj |-> scoreObj, pc |-> "delay", path |-> "none",
   failure |-> "none", reply |-> <<>>, logged |-> <<>>, shown |-> <<>>,
   plotted |-> <<>>, overlay |-> "unset", request |-> 0]

\* The turn t completed, taking the session to s.
Completed(t, s, path, failure, reply) ==
  [t EXCEPT !.pc = "done", !.path = path, !.failure = failure, !.reply = reply,
            !.logged = SubSeq(s.transcript, Len(transcript) + 1, Len(s.transcript)),
            !.shown = SubSeq(s.messages, Len(messages) + 1, Len(s.messages)),
            !.plotted = IF s.emotionTimeline = emotionTimeline THEN <<>>
                        ELSE <<s.emotionTimeline[Len(s.emotionTimeline)]>>,
            !.overlay = IF s.hidden THEN "hidden" ELSE "shown"]

\* Lines 236-249, for the trimmed text and its score: up to the await of the
\* response delay.
SubmitText(text, scoreObj) ==
  /\ Len(turns) < MaxTurns
  /\ Gestures < MaxGestures
  /\ now' = now + 1
  /\ Commit(RenderAndLog(Session, "user", text, now + 1, scoreObj))
  /\ typingHidden' = FALSE
  /\ turns' = Append(turns, NewTurn(text, scoreObj))
  /\ UNCHANGED <<useServer, toolVars, probeVars, serverVars, early>>

\* The submit event with raw the value of the input field.
Submit(raw) ==
  \E text \in {Trimmed[raw]} :
    IF text = "" THEN UNCHANGED vars ELSE SubmitText(text, Scored[text])

\* Mutant of HandlerBranch: the checkbox is read before the crisis check.
HandlerBranch_CheckboxFirst(text, checked) ==
  IF checked THEN "server"
  ELSE IF IsCrisis[text] THEN "crisis" ELSE "local"

\* Which way the handler goes after the delay (lines 252, 260-262, 296).
HandlerBranch(text, checked) ==
  IF IsCrisis[text] THEN "crisis"
  ELSE IF checked THEN "server" ELSE "local"

\* Timers of equal delay fire in the order they were set.
DelayDue(i) ==
  /\ i \in 1..Len(turns)
  /\ turns[i].pc = "delay"
  /\ \A j \in 1..(i - 1) : turns[j].pc # "delay"

\* Mutant of HideTyping: the indicator is left as it is.
HideTyping_Forgotten == typingHidden' = typingHidden

\* typingIndicator.hidden = true (lines 253, 294, 305).
HideTyping == typingHidden' = TRUE

\* Turn i completes with the session s.
Complete(i, s, path, failure, reply) ==
  /\ now' = now + 1
  /\ Commit(s)
  /\ HideTyping
  /\ turns' = [turns EXCEPT ![i] = Completed(@, s, path, failure, reply)]
  /\ UNCHANGED <<useServer, toolVars, probeVars, serverVars, early>>

\* Lines 252-257: the client-side crisis branch.
CrisisBranch(i) ==
  /\ DelayDue(i)
  /\ HandlerBranch(turns[i].text, useServer) = "crisis"
  /\ Complete(i, ApplyCrisis(Session, now + 1), "local-crisis", "none", <<>>)

\* Lines 262-269: fetch is called; the handler awaits the response.
SendRequest(i) ==
  /\ DelayDue(i)
  /\ HandlerBranch(turns[i].text, useServer) = "server"
  /\ turns' = [turns EXCEPT ![i].pc = "fetch"]
  /\ UNCHANGED <<messages, transcript, emotionTimeline, chartData,
                 crisisOverlayHidden, typingHidden, useServer, now,
                 toolVars, probeVars, serverVars, early>>

\* Lines 286-292 and 298-304, then the typing indicator is hidden.
ReplyLocally(i, path, failure) ==
  \E rnd \in 0..(Len(generics) - 1) :
    \E lr \in {localReply(turns[i].text, turns[i].scoreObj, rnd)} :
      Complete(i, ApplyLocalReply(Session, lr, now + 1), path, failure,
               IF Truthy(lr.reply) THEN lr.reply ELSE <<>>)

\* Lines 296-306: the checkbox is off.
LocalBranch(i) ==
  /\ DelayDue(i)
  /\ HandlerBranch(turns[i].text, useServer) = "local"
  /\ ReplyLocally(i, "local", "none")

\* The response delay has elapsed: lines 251-306 up to the next await.
DelayFires(i) == CrisisBranch(i) \/ SendRequest(i) \/ LocalBranch(i)

\* Mutant of CatchFallback: the catch block swallows the error and renders
\* nothing.
CatchFallback_Swallow(i, failure) ==
  Complete(i, Session, "fallback", failure, <<>>)

\* Lines 283-295: the catch block and finally.
CatchFallback(i, failure) == ReplyLocally(i, "fallback", failure)

\* await fetch(...) settles: it rejects, or resolves with resp.ok false
\* (line 270 throws), or resolves with resp.ok true and resp.json() is awaited.
FetchSettles(i) ==
  /\ i \in 1..Len(turns)
  /\ turns[i].pc = "fetch"
  /\ \/ \E failure \in {"reject", "status"} : CatchFallback(i, failure)
     \/ /\ turns' = [turns EXCEPT ![i].pc = "json"]
        /\ UNCHANGED <<messages, transcript, emotionTimeline, chartData,
                       crisisOverlayHidden, typingHidden, useServer, now,
                       toolVars, probeVars, serverVars, early>>

\* Lines 273-282 and 294: the body parsed to data.
HandleData(i, data) ==
  \E reply \in {RemoteReplyText(data)} :
    Complete(i, ApplyRemoteReply(Session, data, reply, now + 1),
             IF RemoteCrisis(data) THEN "remote-crisis" ELSE "remote",
             IF Truthy(data.reply) THEN "none" ELSE "no-reply",
             <<reply>>)

\* await resp.json() settles: it rejects (the body is not JSON), or data is
\* not an object with a string reply (line 273 or scoreText throws a
\* TypeError), or data is a response body.
JsonSettles(i) ==
  /\ i \in 1..Len(turns)
  /\ turns[i].pc = "json"
  /\ \/ \E failure \in {"parse", "type"} : CatchFallback(i, failure)
     \/ \E data \in ResponseBodies : HandleData(i, data)

(***************************************************************************)
(* Internal faults.  emotionChart.update() (line 175) is a call into the   *)
(* chart library; here it throws.  pushToTimeline has then pushed, shifted *)
(* and assigned chartData, and the exception leaves the handler at the     *)
(* pushToTimeline call that made it (lines 243, 277 or 303).               *)
(***************************************************************************)
\* Line 243 throws: the user's message is rendered, logged and plotted;
\* lines 245-306 are not run, so the indicator is not shown and no reply is
\* ever produced.  The invocation is over.
FaultOnSubmit(raw) ==
  \E text \in {Trimmed[raw]} :
    /\ text # ""
    /\ Len(turns) < MaxTurns
    /\ Gestures < MaxGestures
    /\ now' = now + 1
    /\ Commit(RenderAndLog(Session, "user", text, now + 1, Scored[text]))
    /\ turns' = Append(turns, [NewTurn(text, Scored[text]) EXCEPT
                                 !.pc = "done", !.path = "aborted",
                                 !.failure = "fault",
                                 !.overlay = IF crisisOverlayHidden
                                             THEN "hidden" ELSE "shown"])
    /\ UNCHANGED <<typingHidden, useServer, toolVars, probeVars, serverVars, early>>

\* Line 303 throws: the local reply is rendered, logged and plotted; line 305
\* is not run and nothing catches the exception.
FaultOnLocal(i) ==
  /\ DelayDue(i)
  /\ HandlerBranch(turns[i].text, useServer) = "local"
  /\ \E rnd \in 0..(Len(generics) - 1) :
       \E lr \in {localReply(turns[i].text, turns[i].scoreObj, rnd)} :
         \E s \in {ApplyLocalReply(Session, lr, now + 1)} :
           /\ now' = now + 1
           /\ Commit(s)
           /\ turns' = [turns EXCEPT
                          ![i] = Completed(@, s, "local", "fault", lr.reply)]
  /\ UNCHANGED <<typingHidden, useServer, toolVars, probeVars, serverVars, early>>

\* Line 277 throws: the remote reply is rendered, logged and plotted, lines
\* 280-282 are skipped, and the catch block adds the local reply (lines
\* 286-291); finally hides the indicator.
FaultOnRemote(i, data) ==
  /\ i \in 1..Len(turns)
  /\ turns[i].pc = "json"
  /\ \E rnd \in 0..(Len(generics) - 1) :
       \E lr \in {localReply(turns[i].text, turns[i].scoreObj, rnd)} :
         \E reply \in {RemoteReplyText(data)} :
           Complete(i, ApplyLocalReply(
                         RenderAndLog(Session, "bot", reply, now + 1, Scored[reply]),
                         lr, now + 1),
                    "fallback", "fault", lr.reply)

\* The user toggles the "use server" checkbox.
ToggleUseServer ==
  /\ useServer' = ~useServer
  /\ UNCHANGED <<messages, transcript, emotionTimeline, chartData,
                 crisisOverlayHidden, typingHidden, turns, now,
                 toolVars, probeVars, serverVars, early>>

\* overlayClose click (line 215); the button is part of the overlay.
OverlayClose ==
  /\ ~crisisOverlayHidden
  /\ crisisOverlayHidden' = TRUE
  /\ UNCHANGED <<messages, transcript, emotionTimeline, chartData,
                 typingHidden, useServer, turns, now,
                 toolVars, probeVars, serverVars, early>>

(***************************************************************************)
(* Quick tools (lines 313-340) and the JSON export (lines 348-356).        *)
(***************************************************************************)
BREATHING_INTRO ==
  "Let's try 4-4-4 breathing. Breathe in for 4, hold 4, exhale 4. I'll guide you through a few rounds."

cues == <<"Inhale... 4", "Hold... 4", "Exhale... 4">>

\* The cycles of cues one exercise runs through (cues.length * 3).
BREATH_CYCLES == 3

BREATHING_DONE == "Nice work - how are you feeling now?"

GROUNDING_INTRO == "Grounding 5-4-3-2-1: Name 5 things you can see."

\* The messages of the four timers of runGroundingExercise, in the order of
\* their delays (2000, 4200, 6400 and 8600 ms).
GROUNDING_STEPS ==
  <<"4 things you can feel.", "3 things you can hear.",
    "2 things you can smell (or imagine).",
    "1 thing you can taste (or imagine). How was that?">>

\* A score object literal written without count.
Literal(score, emotion) ==
  [score |-> score, emotion |-> emotion, count |-> UNDEFINED]

\* breathBtn click: runBreathingExercise() up to setInterval (lines 317-322).
BreathClick ==
  /\ Gestures < MaxGestures
  /\ now' = now + 1
  /\ messages' = addMessageToUI(messages, BREATHING_INTRO, "bot",
                   [ts |-> now + 1, score |-> Num(0), emotion |-> "calm"])
  /\ transcript' = pushToTranscript(transcript, "bot", "Guided breathing start",
                     now + 1, Literal(Num(0), "calm"))
  /\ breathing' = Append(breathing, [round |-> 0, cleared |-> FALSE,
                                     last |-> now + 1])
  /\ UNCHANGED <<emotionTimeline, chartData, crisisOverlayHidden, typingHidden,
                 useServer, turns, grounding, downloads, probeVars, serverVars, early>>

\* Intervals of equal period fire in turn: the one that was set or that
\* fired longest ago is the next to fire.
IntervalDue(i) ==
  /\ i \in 1..Len(breathing)
  /\ ~breathing[i].cleared
  /\ \A j \in 1..Len(breathing) :
       breathing[j].cleared \/ breathing[i].last <= breathing[j].last

\* The interval of the i-th breathing exercise fires (lines 322-331).
BreathTick(i) ==
  /\ IntervalDue(i)
  /\ now' = now + 1
  /\ IF breathing[i].round >= Len(cues) * BREATH_CYCLES
     THEN /\ breathing' = [breathing EXCEPT ![i].cleared = TRUE,
                                            ![i].last = now + 1]
          /\ messages' = addMessageToUI(messages, BREATHING_DONE, "bot",
                           [ts |-> now + 1, score |-> Num(10), emotion |-> "calm"])
          /\ transcript' = pushToTranscript(transcript, "bot", "Breathing complete",
                             now + 1, Literal(Num(10), "calm"))
     ELSE /\ breathing' = [breathing EXCEPT ![i].round = @ + 1,
                                            ![i].last = now + 1]
          /\ messages' = addMessageToUI(messages,
                           cues[(breathing[i].round % Len(cues)) + 1], "bot",
                           [ts |-> now + 1, score |-> Num(0), emotion |-> "calm"])
          /\ transcript' = transcript
  /\ UNCHANGED <<emotionTimeline, chartData, crisisOverlayHidden, typingHidden,
                 useServer, turns, grounding, downloads, probeVars, serverVars, early>>

\* groundBtn click: runGroundingExercise() (lines 335-339); the four timers
\* are set.
GroundClick ==
  /\ Gestures < MaxGestures
  /\ now' = now + 1
  /\ messages' = addMessageToUI(messages, GROUNDING_INTRO, "bot",
                   [ts |-> now + 1, score |-> Num(0), emotion |-> "grounding"])
  /\ grounding' = Append(grounding, 0)
  /\ UNCHANGED <<transcript, emotionTimeline, chartData, crisisOverlayHidden,
                 typingHidden, useServer, turns, breathing, downloads,
                 probeVars, serverVars, early>>

\* The next timer of the i-th grounding exercise fires (lines 336-339); a
\* timer of an exercise started earlier fires before the timer of equal delay
\* of a later one.
GroundTimer(i) ==
  /\ i \in 1..Len(grounding)
  /\ grounding[i] < Len(GROUNDING_STEPS)
  /\ \A j \in 1..(i - 1) : grounding[j] > grounding[i]
  /\ now' = now + 1
  /\ messages' = addMessageToUI(messages, GROUNDING_STEPS[grounding[i] + 1], "bot",
                   [ts |-> now + 1, score |-> Num(0), emotion |-> ""])
  /\ grounding' = [grounding EXCEPT ![i] = @ + 1]
  /\ UNCHANGED <<transcript, emotionTimeline, chartData, crisisOverlayHidden,
                 typingHidden, useServer, turns, breathing, downloads,
                 probeVars, serverVars, early>>

\* JSON.stringify of a transcript entry: the members in insertion order, a
\* member whose value is undefined left out, NaN written as null.
JsonOfEntry(e) ==
  <<<<"sender", e.sender>>, <<"text", e.text>>, <<"ts", e.ts>>,
    <<"score", IF IsNaN(e.score) THEN "null" ELSE e.score>>,
    <<"emotion", e.emotion>>>>
  \o (IF e.lexCount = UNDEFINED THEN <<>> ELSE <<<<"lexCount", e.lexCount>>>>)

\* JSON.stringify(transcript, null, 2), as the array of its objects.
JsonOf(tr) == [k \in 1..Len(tr) |-> JsonOfEntry(tr[k])]

\* downloadJsonBtn click (lines 348-356): the file handed to the browser.
DownloadJson ==
  /\ Gestures < MaxGestures
  /\ now' = now + 1
  /\ downloads' = Append(downloads, [name |-> now + 1, content |-> JsonOf(transcript)])
  /\ UNCHANGED <<messages, transcript, emotionTimeline, chartData,
                 crisisOverlayHidden, typingHidden, useServer, turns,
                 breathing, grounding, probeVars, serverVars, early>>

(***************************************************************************)
(* Direct calls of detectCrisis (lines 134-138), scoreText (lines 145-162) *)
(* and localReply (lines 182-204).  The text of a call is probe.words, its *)
(* words joined by single blanks; calls records each call with the time it *)
(* was made and its result.                                                *)
(***************************************************************************)
Vocabulary ==
  {"kill", "MYSELF", "Suicidal", "happy", "sad,", "angry", "lonely", "okay",
   "good", "constructor"}

\* The texts of at most MaxWords words.
ProbeTexts == UNION {[1..n -> Vocabulary] : n \in 0..MaxWords}

\* The characters of the text with the words ws.
RECURSIVE TextOf(_)
TextOf(ws) ==
  IF ws = <<>> THEN <<>>
  ELSE IF Len(ws) = 1 THEN Chars(ws[1])
  ELSE Chars(ws[1]) \o <<" ">> \o TextOf(Tail(ws))

\* scoreText and detectCrisis tabulated over these texts.
ProbeScored == [ws \in ProbeTexts |-> scoreTextOf(TextOf(ws))]

ProbeCrisis == [ws \in ProbeTexts |-> detectCrisisOf(TextOf(ws))]

\* scoreText(text) is called; the caller keeps the result.
CallScoreText ==
  /\ Len(calls) < MaxCalls
  /\ calls' = Append(calls, [fn |-> "scoreText", at |-> now,
                             result |-> ProbeScored[probe.words]])
  /\ UNCHANGED <<chatVars, toolVars, probe, serverVars, early>>

\* Mutant of CallDetectCrisis: detection shows the overlay itself when it
\* finds a match, as localReply does.
CallDetectCrisis_Escalates ==
  /\ Len(calls) < MaxCalls
  /\ calls' = Append(calls, [fn |-> "detectCrisis", at |-> now,
                             result |-> ProbeCrisis[probe.words]])
  /\ crisisOverlayHidden' = (crisisOverlayHidden /\ ~ProbeCrisis[probe.words])
  /\ UNCHANGED <<messages, transcript, emotionTimeline, chartData, typingHidden,
                 useServer, turns, now, toolVars, probe, serverVars, early>>

\* detectCrisis(text) is called; the caller keeps the result.
CallDetectCrisis ==
  /\ Len(calls) < MaxCalls
  /\ calls' = Append(calls, [fn |-> "detectCrisis", at |-> now,
                             result |-> ProbeCrisis[probe.words]])
  /\ UNCHANGED <<chatVars, toolVars, probe, serverVars, early>>

\* The texts of the turns that pass between direct calls.
ElapsingTexts == {"okay", "I want to kill myself", "constructor"}

\* A whole turn with the checkbox off passes: the text is submitted (lines
\* 236-249), the delay elapses, and the handler escalates (lines 252-257) or
\* replies locally with the first generic prompt (lines 296-306).
TurnElapses(text) ==
  /\ Len(turns) < MaxTurns
  /\ Gestures < MaxGestures
  /\ now' = now + 2
  /\ \E s1 \in {RenderAndLog(Session, "user", text, now + 1, Scored[text])} :
       \E s2 \in {IF IsCrisis[text] THEN ApplyCrisis(s1, now + 2)
                  ELSE ApplyLocalReply(s1, localReply(text, Scored[text], 0),
                                       now + 2)} :
         /\ Commit(s2)
         /\ turns' = Append(turns,
              [NewTurn(text, Scored[text]) EXCEPT
                 !.pc = "done",
                 !.path = IF IsCrisis[text] THEN "local-crisis" ELSE "local",
                 !.logged = SubSeq(s2.transcript, Len(s1.transcript) + 1,
                                   Len(s2.transcript)),
                 !.shown = SubSeq(s2.messages, Len(s1.messages) + 1,
                                  Len(s2.messages)),
                 !.overlay = IF s2.hidden THEN "hidden" ELSE "shown"])
  /\ typingHidden' = TRUE
  /\ UNCHANGED <<useServer, toolVars, probeVars, serverVars, early>>

\* The scores handed to localReply directly: the thresholds, their
\* neighbours, the ends of the range, a third and NaN.
ProbeScores ==
  {Num(h) : h \in {-100, -61, -60, -59, -21, -20, -19, 0, 39, 40, 41, 100}}
    \cup {Frac(-80, 3), NaN}

\* The texts handed to localReply directly, each a single item.
SelectorTexts ==
  {<<"okay">>, <<"I feel sad and lonely">>, <<"I want to kill myself">>}

\* localReply(userText, scoreObj) is called, Math.random() giving rnd; it
\* escalates by itself when the text is a crisis text (line 185).
CallLocalReply(rnd) ==
  /\ Len(calls) < MaxCalls
  /\ \E lr \in {localReply(probe.words[1],
                           [score |-> probe.score, emotion |-> "neutral",
                            count |-> 1], rnd)} :
       /\ calls' = Append(calls, [fn |-> "localReply", at |-> now, rnd |-> rnd,
                                  result |-> lr.reply])
       /\ Commit(AfterLocalReply(Session, lr, now + 1))
  /\ now' = now + 1
  /\ UNCHANGED <<typingHidden, useServer, turns, toolVars, probe, serverVars, early>>

(***************************************************************************)
(* The server (src/server.js): the POST /api/chat handler.  A request is   *)
(* one invocation of the handler; pc is "llm" while it awaits              *)
(* createChatCompletion.  bodyParser.json() (line 44) hands the handler an *)
(* object as req.body; message is its member of that name, with the type   *)
(* typeof gives ("undefined" when the body has no such member).  forwarded *)
(* holds what the invocation sent to the LLM client, responses what it     *)
(* sent back, llm how the LLM call ended; the server does not read them.   *)
(***************************************************************************)
SERVER_CRISIS_PATTERNS ==
  <<"suicid", "kill myself", "end my life", "want to die", "hurting myself",
    "cant go on">>

\* detectCrisisServer(text) (lines 52-56).
detectCrisisServer(text) ==
  IF text = "" THEN FALSE
  ELSE LET t == toLowerCase(Chars(text))
       IN  \E k \in 1..Len(SERVER_CRISIS_PATTERNS) :
             RegexTest(SERVER_CRISIS_PATTERNS[k], t)

\* detectCrisisServer tabulated over the strings of the model.
IsCrisisServer == [s \in Strings |-> detectCrisisServer(s)]

SERVER_ANXIOUS_REPLY ==
  "I hear you're feeling anxious. Would you like a short breathing exercise? We can try one together."

serverGenerics ==
  <<"Thanks for sharing that - I'm listening. Can you tell me more?",
    "That sounds important. How long have you felt this way?",
    "I appreciate you telling me this. What would help you right now?">>

\* String.prototype.includes, on characters.
Includes(cs, sub) ==
  \E i \in 1..(Len(cs) - Len(Chars(sub)) + 1) :
    SubSeq(cs, i, i + Len(Chars(sub)) - 1) = Chars(sub)

\* generateDeterministicReply(text) (lines 138-152); rnd is
\* Math.floor(Math.random() * generics.length).
generateDeterministicReply(text, rnd) ==
  LET lowered == toLowerCase(Chars(text)) IN
  IF Includes(lowered, "help") /\ Includes(lowered, "anx")
  THEN SERVER_ANXIOUS_REPLY
  ELSE IF Includes(lowered, "sad") \/ Includes(lowered, "depress")
  THEN SERVER_SAD_REPLY
  ELSE serverGenerics[rnd + 1]

\* The message members a client may post.
PostedTexts ==
  {"", "   ", "okay", "I feel sad and lonely", "please help, I am anxious",
   "I want to kill myself", "there is no reason to live"}

PostedMessages ==
  [type : {"string"}, value : PostedTexts]
    \cup {[type |-> "undefined", value |-> ""], [type |-> "number", value |-> "0"],
          [type |-> "number", value |-> "42"], [type |-> "object", value |-> "{}"]}

\* !message || typeof message !== 'string' (line 84).
InvalidMessage(message) ==
  \/ message.type = "undefined"
  \/ message.type = "string" /\ message.value = ""
  \/ message.type = "number" /\ message.value = "0"
  \/ message.type # "string"

\* res.json(body) and res.status(code).json(body).
Reply200(reply, crisis, moderated) ==
  [status |-> 200, reply |-> <<reply>>,
   safety |-> <<[crisis |-> crisis, moderated |-> moderated]>>,
   error |-> <<>>]

ReplyError(status, error) ==
  [status |-> status, reply |-> <<>>, safety |-> <<>>, error |-> <<error>>]

NewRequest(message) ==
  [message |-> message, pc |-> "done", llm |-> "none", forwarded |-> <<>>,
   responses |-> <<>>]

\* Mutant of ServerBranch: the LLM client is tried before the crisis filter.
ServerBranch_LlmFirst(message, configured) ==
  IF InvalidMessage(message) THEN "invalid"
  ELSE IF configured THEN "llm"
  ELSE IF IsCrisisServer[message.value] THEN "crisis"
  ELSE "fallback"

\* Which way the handler goes (lines 84, 86-87, 94, 126).
ServerBranch(message, configured) ==
  IF InvalidMessage(message) THEN "invalid"
  ELSE IF IsCrisisServer[message.value] THEN "crisis"
  ELSE IF configured THEN "llm"
  ELSE "fallback"

\* Lines 126-127: the fallback reply is sent.
SendFallback(req, rnd) ==
  [req EXCEPT !.pc = "done",
              !.responses = Append(@, Reply200(
                 generateDeterministicReply(req.message.value, rnd), FALSE, FALSE))]

\* Lines 82-108 up to the response or to the await, for a request with this
\* message.
Handle(message) ==
  /\ Len(requests) < MaxRequests
  /\ \E branch \in {ServerBranch(message, openaiClient)} :
       \E rnd \in 0..(Len(serverGenerics) - 1) :
         requests' = Append(requests,
           IF branch = "invalid"
           THEN [NewRequest(message) EXCEPT
                   !.responses = <<ReplyError(400, "Invalid message")>>]
           ELSE IF branch = "crisis"
           THEN [NewRequest(message) EXCEPT
                   !.responses = <<Reply200(SERVER_SAFE_TEXT, TRUE, TRUE)>>]
           ELSE IF branch = "llm"
           THEN [NewRequest(message) EXCEPT
                   !.pc = "llm", !.forwarded = <<message.value>>]
           ELSE SendFallback(NewRequest(message), rnd))

\* A request arrives from some client.
Receive(message) ==
  /\ Handle(message)
  /\ UNCHANGED <<chatVars, toolVars, probeVars, openaiClient, sessionLog, early>>

\* completion.data?.choices?.[0]?.message?.content of a completion: missing,
\* empty, blank, or a text.
LlmContents ==
  {<<>>, <<"">>, <<"   ">>, <<"  That sounds hard. I'm here with you.  ">>}

\* Lines 109-110: the trimmed content, if there is any.
LlmReply(content) == IF content = <<>> THEN <<>> ELSE <<Trimmed[content[1]]>>

\* createChatCompletion resolves (lines 109-118); logged tells whether
\* fs.appendFileSync succeeded (its failure is swallowed, line 116).  An
\* empty reply throws at line 110 and is caught at line 119.
LlmResolves(i, content, logged) ==
  /\ i \in 1..Len(requests)
  /\ requests[i].pc = "llm"
  /\ \E reply \in {LlmReply(content)} :
       IF Truthy(reply)
       THEN /\ requests' = [requests EXCEPT
                  ![i].pc = "done", ![i].llm = "replied",
                  ![i].responses = Append(@, Reply200(reply[1], FALSE, FALSE))]
            /\ sessionLog' = IF logged
                             THEN Append(sessionLog,
                                    [message |-> requests[i].message.value,
                                     reply |-> reply[1]])
                             ELSE sessionLog
       ELSE /\ \E rnd \in 0..(Len(serverGenerics) - 1) :
                 requests' = [requests EXCEPT
                    ![i] = SendFallback([@ EXCEPT !.llm = "empty"], rnd)]
            /\ sessionLog' = sessionLog
  /\ UNCHANGED <<chatVars, toolVars, probeVars, openaiClient, early>>

\* Mutant of LlmRejects: the failure of the LLM call is answered with 500.
LlmRejects_ServerError(i) ==
  /\ i \in 1..Len(requests)
  /\ requests[i].pc = "llm"
  /\ requests' = [requests EXCEPT
        ![i].pc = "done", ![i].llm = "rejected",
        ![i].responses = Append(@, ReplyError(500, "Server error"))]
  /\ UNCHANGED <<chatVars, toolVars, probeVars, openaiClient, sessionLog, early>>

\* createChatCompletion rejects: lines 119-122, then the fallback.
LlmRejects(i) ==
  /\ i \in 1..Len(requests)
  /\ requests[i].pc = "llm"
  /\ \E rnd \in 0..(Len(serverGenerics) - 1) :
       requests' = [requests EXCEPT
          ![i] = SendFallback([@ EXCEPT !.llm = "rejected"], rnd)]
  /\ UNCHANGED <<chatVars, toolVars, probeVars, openaiClient, sessionLog, early>>

(***************************************************************************)
(* The two crisis detectors, the client's detectCrisis (src/app.js lines   *)
(* 134-138) and the server's detectCrisisServer (src/server.js lines       *)
(* 52-56), called on the same text, the single item of probe.words.        *)
(***************************************************************************)
DetectorTexts ==
  {<<text>> : text \in PostedTexts \cup {"I would rather die by myself", "Suicidal"}}

\* detectCrisis(text) is called in the page.
CallClientDetector ==
  /\ Len(calls) < MaxCalls
  /\ calls' = Append(calls, [fn |-> "detectCrisis", at |-> now,
                             result |-> detectCrisis(probe.words[1])])
  /\ UNCHANGED <<chatVars, toolVars, probe, serverVars, early>>

\* detectCrisisServer(text) is called in the server.
CallServerDetector ==
  /\ Len(calls) < MaxCalls
  /\ calls' = Append(calls, [fn |-> "detectCrisisServer", at |-> now,
                             result |-> detectCrisisServer(probe.words[1])])
  /\ UNCHANGED <<chatVars, toolVars, probe, serverVars, early>>

(***************************************************************************)
(* The earlier client (src/unnamed/part_000).  early holds its page: the   *)
(* children of #messages, crisisOverlay.hidden, CONFIG.USE_OPENAI, and the *)
(* invocations of its submit handler.  A turn is one invocation; pc is     *)
(* "delay" until its timer fires and "fetch" while the promise chain of    *)
(* fetch is pending; path and escalations record which way it went and how *)
(* often it called escalateToCrisis; the program does not read them.       *)
(***************************************************************************)
CRISIS_KEYWORDS ==
  <<"suicid", "kill myself", "end my life", "want to die", "hurting myself",
    "cant go on", "cant cope anymore", "want to die", "no reason to live">>

FEELING_KEYWORDS ==
  <<[key |-> "sad", reflect |-> "It sounds like you're feeling sad.",
     suggestion |-> "Would you like to talk about what's making you feel this way?"],
    [key |-> "anxious", reflect |-> "You seem to be feeling anxious or worried.",
     suggestion |-> "Would trying a short breathing exercise help right now?"],
    [key |-> "overwhelmed", reflect |-> "You're feeling overwhelmed.",
     suggestion |-> "Let's try breaking things into small steps-what's one tiny thing you can do?"],
    [key |-> "lonely", reflect |-> "Feeling lonely can be really hard.",
     suggestion |-> "Would you like some small ideas to connect with others or care for yourself?"],
    [key |-> "angry", reflect |-> "You're feeling angry right now.",
     suggestion |-> "Would a quick grounding exercise help to reduce the intensity?"],
    [key |-> "depressed", reflect |-> "Sounds like you're feeling low or depressed.",
     suggestion |-> "If this is persistent, reaching out to a professional might help; I can show you resources."]>>

\* detectCrisis(text) of the earlier client (lines 63-67).
Early_detectCrisis(text) ==
  IF text = "" THEN FALSE
  ELSE LET lowered == toLowerCase(Chars(text))
       IN  \E k \in 1..Len(CRISIS_KEYWORDS) : RegexTest(CRISIS_KEYWORDS[k], lowered)

Early_IsCrisis == [s \in Strings |-> Early_detectCrisis(s)]

\* detectFeeling(text) (lines 75-82): the first entry whose key the text
\* includes, or none.
detectFeeling(text) ==
  IF text = "" THEN <<>>
  ELSE LET lowered == toLowerCase(Chars(text))
           hits == {k \in 1..Len(FEELING_KEYWORDS) :
                      Includes(lowered, FEELING_KEYWORDS[k].key)}
       IN  IF hits = {} THEN <<>>
           ELSE <<FEELING_KEYWORDS[CHOOSE k \in hits : \A h \in hits : k <= h]>>

Feeling == [s \in Strings |-> detectFeeling(s)]

defaults ==
  <<"I'm listening - tell me more about that.",
    "That sounds important. What happened?",
    "How long have you been feeling like this?">>

EARLY_ESCALATION_MESSAGE ==
  "I hear you. I'm concerned for your safety. Please consider contacting emergency services or a crisis line now."

EARLY_TROUBLE ==
  "Sorry, I'm having trouble forming a response right now."

\* addMessage(text, sender) (lines 48-54), on a page p.  A text is kept as
\* the pieces it was put together from, which a blank separates (line 101).
Early_addMessage(p, text, sender) ==
  [p EXCEPT !.messages = Append(@, [sender |-> sender, text |-> text])]

\* escalateToCrisis() (lines 120-123).
Early_escalateToCrisis(p) ==
  Early_addMessage([p EXCEPT !.overlayHidden = FALSE],
                   <<EARLY_ESCALATION_MESSAGE>>, "bot")

\* generateLocalResponse(userText) (lines 93-111) and what its caller does
\* with the result (lines 161, 165), Math.random() giving rnd: the page
\* after it, and whether it escalated.
LocalResponse(p, userText, rnd) ==
  IF Early_IsCrisis[userText]
  THEN [page |-> Early_escalateToCrisis(p), escalated |-> 1]
  ELSE IF Feeling[userText] # <<>>
  THEN [page |-> Early_addMessage(p, <<Feeling[userText][1].reflect,
                                       Feeling[userText][1].suggestion>>, "bot"),
        escalated |-> 0]
  ELSE [page |-> Early_addMessage(p, <<defaults[rnd + 1]>>, "bot"),
        escalated |-> 0]

\* What the user may have typed into the earlier client.
EarlyInputs ==
  {"", "   ", " okay ", "I want to kill myself", "i cant cope anymore",
   " I feel sad and lonely "}

\* The submit handler up to setTimeout (lines 133-140, 167).
EarlySubmit(raw) ==
  /\ Len(early.turns) < MaxTurns
  /\ \E text \in {Trimmed[raw]} :
       IF text = "" THEN UNCHANGED early
       ELSE early' = [Early_addMessage(early, <<text>>, "user") EXCEPT
                        !.turns = Append(@, [text |-> text, pc |-> "delay",
                                             path |-> "none", escalations |-> 0])]
  /\ UNCHANGED <<chatVars, toolVars, probeVars, serverVars>>

\* The page r.page with turn i done on the given path.
EarlyDone(i, r, path) ==
  early' = [r.page EXCEPT !.turns[i].pc = "done", !.turns[i].path = path,
                          !.turns[i].escalations = @ + r.escalated]

\* The timer of turn i fires (lines 140-166): fetch is called, or the local
\* response is rendered.  Timers of equal delay fire in the order they were
\* set.
EarlyDelayFires(i) ==
  /\ i \in 1..Len(early.turns)
  /\ early.turns[i].pc = "delay"
  /\ \A j \in 1..(i - 1) : early.turns[j].pc # "delay"
  /\ IF early.useOpenai
     THEN early' = [early EXCEPT !.turns[i].pc = "fetch"]
     ELSE \E rnd \in 0..(Len(defaults) - 1) :
            EarlyDone(i, LocalResponse(early, early.turns[i].text, rnd), "local")
  /\ UNCHANGED <<chatVars, toolVars, probeVars, serverVars>>

\* The bodies r.json() may resolve with: an object with a string reply, or
\* one without.
EarlyResponseBodies ==
  [reply : {<<>>, <<SERVER_SAFE_TEXT>>, <<SERVER_SAD_REPLY>>}]

\* Lines 150-157: the body parsed to data.
EarlyHandleData(p, text, data) ==
  IF data.reply # <<>>
  THEN LET q == Early_addMessage(p, data.reply, "bot") IN
       IF Early_IsCrisis[text]
       THEN [page |-> Early_escalateToCrisis(q), escalated |-> 1]
       ELSE [page |-> q, escalated |-> 0]
  ELSE [page |-> Early_addMessage(p, <<EARLY_TROUBLE>>, "bot"), escalated |-> 0]

\* The promise chain of turn i settles (lines 149-162): fetch or r.json()
\* rejects and the catch block falls back to the local response, or the
\* body parsed to data.
EarlyFetchSettles(i) ==
  /\ i \in 1..Len(early.turns)
  /\ early.turns[i].pc = "fetch"
  /\ \/ \E rnd \in 0..(Len(defaults) - 1) :
          EarlyDone(i, LocalResponse(early, early.turns[i].text, rnd),
                    "remote-failure")
     \/ \E data \in EarlyResponseBodies :
          EarlyDone(i, EarlyHandleData(early, early.turns[i].text, data),
                    IF data.reply # <<>> THEN "remote-reply" ELSE "remote-no-reply")
  /\ UNCHANGED <<chatVars, toolVars, probeVars, serverVars>>

\* Lines 126-128.
EarlyOverlayClose ==
  /\ ~early.overlayHidden
  /\ early' = [early EXCEPT !.overlayHidden = TRUE]
  /\ UNCHANGED <<chatVars, toolVars, probeVars, serverVars>>

\* The earlier client greets (line 216); the overlay is hidden or not as the
\* page's markup has it; USE_OPENAI is the developer's setting (line 15).
EarlyGreeted(useOpenai, hidden) ==
  [messages |-> <<[sender |-> "bot",
                   text |-> <<"Hi - I'm here to listen. What's on your mind today?">>]>>,
   overlayHidden |-> hidden, useOpenai |-> useOpenai, turns |-> <<>>]

\* The earlier client is not loaded.
NoEarlyClient ==
  early = [messages |-> <<>>, overlayHidden |-> TRUE, useOpenai |-> FALSE,
           turns |-> <<>>]

(***************************************************************************)
(* The page (src/app.js) and the server (src/server.js) together: the      *)
(* fetch of a turn makes one request, and the turn sees what the server    *)
(* answered to it.  turns[i].request is the place of that request.         *)
(***************************************************************************)
\* JSON.stringify of a string (app.js line 266): quotes around it, with a
\* backslash before each quote and backslash.
RECURSIVE JsonEscape(_)
JsonEscape(cs) ==
  IF cs = <<>> THEN <<>>
  ELSE (IF Head(cs) \in {"\"", "\\"} THEN <<"\\", Head(cs)>> ELSE <<Head(cs)>>)
         \o JsonEscape(Tail(cs))

JsonStringify(cs) == <<"\"">> \o JsonEscape(cs) \o <<"\"">>

\* The string a JSON string literal stands for (bodyParser.json(),
\* server.js line 44): the character after a backslash is taken as it is.
RECURSIVE JsonUnescape(_)
JsonUnescape(cs) ==
  IF cs = <<>> THEN <<>>
  ELSE IF Head(cs) = "\\" /\ Len(cs) > 1
  THEN <<cs[2]>> \o JsonUnescape(Tail(Tail(cs)))
  ELSE <<Head(cs)>> \o JsonUnescape(Tail(cs))

JsonParseString(cs) == JsonUnescape(SubSeq(cs, 2, Len(cs) - 1))

\* The message member the server finds in the body the page sent for a text.
Posted == [s \in Strings |->
             [type |-> "string",
              value |-> FromChars(JsonParseString(JsonStringify(Chars(s))))]]

\* What the user may type into the page that talks to the server.
ComposedInputs ==
  {"", " okay ", "I want to kill myself", "I feel sad and lonely",
   "there is no reason to live", "please help, I am anxious", "Suicidal",
   "say \"okay\""}

\* The request of turn i reaches the server, which handles it (server.js
\* lines 82-108) up to its response or to the await of the LLM call.
Arrives(i) ==
  /\ i \in 1..Len(turns)
  /\ turns[i].pc = "fetch"
  /\ turns[i].request = 0
  /\ Handle(Posted[turns[i].text])
  /\ turns' = [turns EXCEPT ![i].request = Len(requests) + 1]
  /\ UNCHANGED <<messages, transcript, emotionTimeline, chartData,
                 crisisOverlayHidden, typingHidden, useServer, now,
                 toolVars, probeVars, openaiClient, sessionLog, early>>

\* await fetch(...) of turn i settles (app.js lines 263-270): it rejects,
\* the network having failed, or it resolves with the server's response.
FetchReturns(i) ==
  /\ i \in 1..Len(turns)
  /\ turns[i].pc = "fetch"
  /\ \/ CatchFallback(i, "reject")
     \/ /\ turns[i].request # 0
        /\ requests[turns[i].request].responses # <<>>
        /\ IF requests[turns[i].request].responses[1].status # 200
           THEN CatchFallback(i, "status")
           ELSE /\ turns' = [turns EXCEPT ![i].pc = "json"]
                /\ UNCHANGED <<messages, transcript, emotionTimeline, chartData,
                               crisisOverlayHidden, typingHidden, useServer, now,
                               toolVars, probeVars, serverVars, early>>

\* await resp.json() of turn i settles with the body the server sent (app.js
\* lines 271-282, 294).
JsonReturns(i) ==
  /\ i \in 1..Len(turns)
  /\ turns[i].pc = "json"
  /\ \E resp \in {requests[turns[i].request].responses[1]} :
       HandleData(i, [reply |-> resp.reply, safety |-> resp.safety])

(***************************************************************************)
(* Initialization (lines 69, 75-76, 388-390).  The hidden attributes of    *)
(* the overlay and of the typing indicator come from the page's markup,    *)
(* which is not part of the sources: either value is allowed.              *)
(***************************************************************************)
ZeroScore == [score |-> Num(0), emotion |-> "neutral", count |-> 0]

\* The session after the greeting, at time ts (lines 388-390).
Greeted(ts, hidden) ==
  [messages |-> addMessageToUI(<<>>, GREETING_MESSAGE, "bot",
                  [ts |-> ts, score |-> Num(0), emotion |-> "neutral"]),
   transcript |-> pushToTranscript(<<>>, "bot", "Greeting", ts,
                    [score |-> Num(0), emotion |-> "neutral", count |-> UNDEFINED]),
   emotionTimeline |-> pushToTimeline(<<>>, ts, ZeroScore),
   hidden |-> hidden]

InitSession(s) ==
  /\ messages = s.messages
  /\ transcript = s.transcript
  /\ emotionTimeline = s.emotionTimeline
  /\ chartData = ChartOf(s.emotionTimeline)
  /\ crisisOverlayHidden = s.hidden

\* No exercise has run and nothing was exported.
InitTools ==
  /\ breathing = <<>>
  /\ grounding = <<>>
  /\ downloads = <<>>

\* No pure function has been called directly.
NoProbe == [words |-> <<>>, score |-> Num(0)]

InitProbe ==
  /\ probe = NoProbe
  /\ calls = <<>>

\* The server has received nothing (lines 25-26: no client unless a key is
\* configured).
InitServer ==
  /\ openaiClient \in BOOLEAN
  /\ requests = <<>>
  /\ sessionLog = <<>>

\* The page is served by something else: the server of this model is idle.
NoServer ==
  /\ openaiClient = FALSE
  /\ requests = <<>>
  /\ sessionLog = <<>>

InitChat ==
  /\ \E hidden \in BOOLEAN : InitSession(Greeted(1, hidden))
  /\ now = 1
  /\ typingHidden \in BOOLEAN
  /\ useServer = USE_SERVER_BY_DEFAULT
  /\ turns = <<>>

Init == InitChat /\ InitTools /\ InitProbe /\ NoServer /\ NoEarlyClient

Next ==
  \/ \E raw \in Inputs : Submit(raw)
  \/ \E i \in 1..MaxTurns : DelayFires(i)
  \/ \E i \in 1..MaxTurns : FetchSettles(i)
  \/ \E i \in 1..MaxTurns : JsonSettles(i)
  \/ ToggleUseServer
  \/ OverlayClose

Spec == Init /\ [][Next]_vars

\* The text functions called directly on a text, with turns passing between
\* the calls.
InitPure ==
  /\ InitChat /\ InitTools /\ NoServer /\ NoEarlyClient
  /\ probe \in [words : ProbeTexts, score : {Num(0)}]
  /\ calls = <<>>

NextPure ==
  \/ CallScoreText
  \/ CallDetectCrisis
  \/ \E text \in ElapsingTexts : TurnElapses(text)

SpecPure == InitPure /\ [][NextPure]_vars

\* The Response Selector called directly on a text and a score.
InitSelector ==
  /\ InitChat /\ InitTools /\ NoServer /\ NoEarlyClient
  /\ probe \in [words : SelectorTexts, score : ProbeScores]
  /\ calls = <<>>

NextSelector == \E rnd \in 0..(Len(generics) - 1) : CallLocalReply(rnd)

SpecSelector == InitSelector /\ [][NextSelector]_vars

\* The server alone, with a page that is loaded and left alone.
IdleChat ==
  /\ InitSession(Greeted(1, TRUE))
  /\ now = 1
  /\ typingHidden = TRUE
  /\ useServer = USE_SERVER_BY_DEFAULT
  /\ turns = <<>>

InitServerOnly ==
  IdleChat /\ InitTools /\ InitProbe /\ InitServer /\ NoEarlyClient

NextServer ==
  \/ \E message \in PostedMessages : Receive(message)
  \/ \E i \in 1..MaxRequests : \E content \in LlmContents :
       \E logged \in BOOLEAN : LlmResolves(i, content, logged)
  \/ \E i \in 1..MaxRequests : LlmRejects(i)

SpecServer == InitServerOnly /\ [][NextServer]_vars

\* Both crisis detectors called on one text.
InitDetectors ==
  /\ InitChat /\ InitTools /\ NoServer /\ NoEarlyClient
  /\ probe \in [words : DetectorTexts, score : {Num(0)}]
  /\ calls = <<>>

NextDetectors == CallClientDetector \/ CallServerDetector

SpecDetectors == InitDetectors /\ [][NextDetectors]_vars

\* The earlier client alone.
InitEarly ==
  /\ IdleChat /\ InitTools /\ InitProbe /\ NoServer
  /\ \E useOpenai, hidden \in BOOLEAN : early = EarlyGreeted(useOpenai, hidden)

NextEarly ==
  \/ \E raw \in EarlyInputs : EarlySubmit(raw)
  \/ \E i \in 1..MaxTurns : EarlyDelayFires(i)
  \/ \E i \in 1..MaxTurns : EarlyFetchSettles(i)
  \/ EarlyOverlayClose

SpecEarly == InitEarly /\ [][NextEarly]_vars

\* The page and the server together.
NextComposed ==
  \/ \E raw \in ComposedInputs : Submit(raw)
  \/ \E i \in 1..MaxTurns : DelayFires(i)
  \/ \E i \in 1..MaxTurns : Arrives(i)
  \/ \E i \in 1..MaxRequests : \E content \in LlmContents :
       \E logged \in BOOLEAN : LlmResolves(i, content, logged)
  \/ \E i \in 1..MaxRequests : LlmRejects(i)
  \/ \E i \in 1..MaxTurns : FetchReturns(i)
  \/ \E i \in 1..MaxTurns : JsonReturns(i)
  \/ ToggleUseServer

SpecComposed == InitServerOnly /\ [][NextComposed]_vars

\* The chat with a chart library that may throw.
NextFault ==
  \/ Next
  \/ \E raw \in Inputs : FaultOnSubmit(raw)
  \/ \E i \in 1..MaxTurns : FaultOnLocal(i)
  \/ \E i \in 1..MaxTurns : \E data \in ResponseBodies : FaultOnRemote(i, data)

SpecFault == Init /\ [][NextFault]_vars

\* The chat together with the quick tools and the export.
NextTools ==
  \/ Next
  \/ BreathClick
  \/ \E i \in 1..MaxGestures : BreathTick(i)
  \/ GroundClick
  \/ \E i \in 1..MaxGestures : GroundTimer(i)
  \/ DownloadJson

SpecTools == Init /\ [][NextTools]_vars

\* The timers and the promises of a turn settle: the response delay fires
\* and the remote call resolves or rejects.
Fairness ==
  \A i \in 1..MaxTurns :
    /\ WF_vars(DelayFires(i))
    /\ WF_vars(FetchSettles(i))
    /\ WF_vars(JsonSettles(i))

FairSpec == Spec /\ Fairness

(***************************************************************************)
(* A long session: the state after PriorTurns turns of "okay", each         *)
(* answered locally (checkbox off) with the first generic prompt; the       *)
(* k-th was submitted at time 2k and answered at time 2k + 1.  The turns    *)
(* variable then records only the turns submitted from here on.             *)
(***************************************************************************)
EmptySession ==
  [messages |-> <<>>, transcript |-> <<>>, emotionTimeline |-> <<>>,
   hidden |-> TRUE]

\* What the k-th rendering of that session added, as a session of its own:
\* the greeting (k = 1), the user's "okay" (k even) or the reply to it.
PriorStep(k) ==
  IF k = 1 THEN Greeted(1, TRUE)
  ELSE IF k % 2 = 0
  THEN RenderAndLog(EmptySession, "user", "okay", k, Scored["okay"])
  ELSE ApplyLocalReply(EmptySession, localReply("okay", Scored["okay"], 0), k)

\* The last n elements of a sequence: what n or more pushes, each followed
\* by the shift of pushToTimeline, leave of it when n is the window.
LastN(seq, n) ==
  IF Len(seq) > n THEN SubSeq(seq, Len(seq) - n + 1, Len(seq)) ELSE seq

AfterLocalTurns(turnCount, hidden) ==
  [messages |-> [k \in 1..(2 * turnCount + 1) |-> PriorStep(k).messages[1]],
   transcript |-> [k \in 1..(2 * turnCount + 1) |-> PriorStep(k).transcript[1]],
   emotionTimeline |->
     LastN([k \in 1..(2 * turnCount + 1) |-> PriorStep(k).emotionTimeline[1]],
           TIMELINE_MAX),
   hidden |-> hidden]

InitLong ==
  /\ \E hidden \in BOOLEAN : InitSession(AfterLocalTurns(PriorTurns, hidden))
  /\ now = 2 * PriorTurns + 1
  /\ typingHidden = TRUE
  /\ useServer = FALSE
  /\ turns = <<>>
  /\ InitTools /\ InitProbe /\ NoServer /\ NoEarlyClient

SpecLong == InitLong /\ [][Next]_vars

(***************************************************************************)
(* Properties.                                                             *)
(***************************************************************************)
Done(i) == i \in 1..Len(turns) /\ turns[i].pc = "done"

InFlight(i) == i \in 1..Len(turns) /\ turns[i].pc # "done"

\* The escalation messages and the other (reply) messages turn t rendered.
EscalationsOf(t) ==
  Cardinality({k \in 1..Len(t.shown) : t.shown[k].text = ESCALATION_MESSAGE})

RepliesOf(t) ==
  Cardinality({k \in 1..Len(t.shown) : t.shown[k].text # ESCALATION_MESSAGE})

\* The Response Selector's buckets as the specification states them (4.3).
SelectorChoices(score) ==
  IF Le(score, Num(-60)) THEN {REPLY_HIGH_CONCERN}
  ELSE IF Lt(Num(-60), score) /\ Lt(score, Num(-20)) THEN {REPLY_MODERATE_CONCERN}
  ELSE IF Lt(Num(40), score) THEN {REPLY_POSITIVE}
  ELSE {generics[k] : k \in 1..Len(generics)}

\* An entry or message without its time stamp.
Untimed(e) == [f \in (DOMAIN e) \ {"ts", "t"} |-> e[f]]

UntimedSeq(es) == [k \in 1..Len(es) |-> Untimed(es[k])]

\* The message escalateToCrisis renders, without its time stamp.
EscalationShown ==
  [sender |-> "bot", text |-> ESCALATION_MESSAGE, score |-> Num(-100),
   emotion |-> "crisis"]

\* C1: a submitted turn whose text matches a client crisis pattern never
\* reaches the server, and when it completes it has shown the overlay and
\* exactly the fixed escalation message; no reply was rendered, logged or
\* plotted for it (only the crisis marker entry is logged).
C1_CrisisTextOnlyEscalates ==
  \A i \in 1..Len(turns) :
    IsCrisis[turns[i].text] =>
      /\ turns[i].pc \in {"delay", "done"}
      /\ turns[i].pc = "done" =>
           /\ turns[i].path = "local-crisis"
           /\ turns[i].overlay = "shown"
           /\ UntimedSeq(turns[i].shown) = <<EscalationShown>>
           /\ turns[i].reply = <<>>
           /\ turns[i].plotted = <<>>
           /\ Len(turns[i].logged) = 1
           /\ turns[i].logged[1].sender = "bot"
           /\ turns[i].logged[1].text = CRISIS_TRANSCRIPT_TEXT

C1_Witness ==
  \E i \in 1..Len(turns) :
    /\ Done(i) /\ IsCrisis[turns[i].text] /\ useServer
    /\ turns[i].overlay = "shown"

\* C2: a turn whose remote call failed (fetch rejected, status not OK, body
\* not parsable or not an object with a string reply) completes with a
\* non-null reply that the local Response Selector picks for the user's
\* score, rendered once, and with exactly one new bot entry in the
\* transcript, which carries that reply.
C2_RemoteFailureFallsBack ==
  \A i \in 1..Len(turns) :
    (Done(i) /\ turns[i].failure \in {"reject", "status", "parse", "type"}) =>
      /\ turns[i].path = "fallback"
      /\ turns[i].reply # <<>>
      /\ turns[i].reply[1] \in SelectorChoices(turns[i].scoreObj.score)
      /\ Len(turns[i].logged) = 1
      /\ turns[i].logged[1].sender = "bot"
      /\ turns[i].logged[1].text = turns[i].reply[1]
      /\ Len(turns[i].shown) = 1
      /\ turns[i].shown[1].text = turns[i].reply[1]

C2_Witness ==
  \E i \in 1..Len(turns) :
    /\ Done(i) /\ turns[i].failure = "parse" /\ Len(turns[i].logged) = 1

\* A step that logs a scored message (a user message or a reply): the steps
\* in which the handler calls pushToTimeline.
PushStep ==
  /\ Len(transcript') = Len(transcript) + 1
  /\ transcript'[Len(transcript')].text # CRISIS_TRANSCRIPT_TEXT

C4_Original ==
  \A i \in 1..Len(turns) :
    (Done(i) /\ turns[i].failure = "no-reply") =>
      /\ turns[i].reply # <<>>
      /\ turns[i].reply[1] \in SelectorChoices(turns[i].scoreObj.score)

\* C4 amended: a successful response whose reply field is missing or empty
\* is answered with the fixed message "Sorry, I'm having trouble responding
\* right now.", rendered once and logged as exactly one bot entry.
C4_NoReplyGivesTroubleMessage ==
  \A i \in 1..Len(turns) :
    (Done(i) /\ turns[i].failure = "no-reply") =>
      /\ turns[i].path \in {"remote", "remote-crisis"}
      /\ turns[i].reply = <<REPLY_TROUBLE>>
      /\ Len(turns[i].logged) = 1
      /\ turns[i].logged[1].sender = "bot"
      /\ turns[i].logged[1].text = REPLY_TROUBLE
      /\ RepliesOf(turns[i]) = 1
      /\ turns[i].shown[1].text = REPLY_TROUBLE

C4_Witness ==
  \E i \in 1..Len(turns) :
    /\ Done(i) /\ turns[i].failure = "no-reply"
    /\ turns[i].logged[1].text = REPLY_TROUBLE

\* C5 as stated: a turn escalated on the remote flag and a turn escalated by
\* the local detector change the overlay alike, show the same bot messages
\* and add the same transcript and timeline entries.
C5_Original ==
  \A i, j \in 1..Len(turns) :
    (Done(i) /\ Done(j) /\ turns[i].path = "remote-crisis"
       /\ turns[j].path = "local-crisis") =>
      /\ turns[i].overlay = turns[j].overlay
      /\ UntimedSeq(turns[i].shown) = UntimedSeq(turns[j].shown)
      /\ UntimedSeq(turns[i].logged) = UntimedSeq(turns[j].logged)
      /\ UntimedSeq(turns[i].plotted) = UntimedSeq(turns[j].plotted)

\* C5 amended: both kinds of escalated turn leave the overlay shown and
\* render the same fixed escalation message exactly once, as their last
\* message.  They differ in the rest: the remote turn first renders the
\* remote reply, logs it and plots it; the local turn renders nothing else,
\* logs the entry "Crisis escalation message" and plots nothing.
C5_SameOverlayAndMessage ==
  \A i \in 1..Len(turns) :
    (Done(i) /\ turns[i].path \in {"remote-crisis", "local-crisis"}) =>
      /\ turns[i].overlay = "shown"
      /\ EscalationsOf(turns[i]) = 1
      /\ Untimed(turns[i].shown[Len(turns[i].shown)]) = EscalationShown
      /\ Len(turns[i].logged) = 1
      /\ IF turns[i].path = "remote-crisis"
         THEN /\ Len(turns[i].shown) = 2
              /\ turns[i].shown[1].text = turns[i].reply[1]
              /\ turns[i].logged[1].text = turns[i].reply[1]
              /\ Len(turns[i].plotted) = 1
         ELSE /\ Len(turns[i].shown) = 1
              /\ turns[i].logged[1].text = CRISIS_TRANSCRIPT_TEXT
              /\ turns[i].plotted = <<>>

C5_Witness ==
  \E i, j \in 1..Len(turns) :
    /\ Done(i) /\ turns[i].path = "remote-crisis"
    /\ Done(j) /\ turns[j].path = "local-crisis"

\* C6 as stated: at most one submitted turn is between its submission and
\* its completion.
C6_SingleTurnInFlight ==
  Cardinality({i \in 1..Len(turns) : InFlight(i)}) <= 1

\* C7 as stated: a completed turn has produced exactly one bot reply or
\* exactly one escalation, never both and never neither.
C7_Original ==
  \A i \in 1..Len(turns) :
    Done(i) =>
      \/ RepliesOf(turns[i]) = 1 /\ EscalationsOf(turns[i]) = 0
      \/ RepliesOf(turns[i]) = 0 /\ EscalationsOf(turns[i]) = 1

\* C7 amended: a completed turn has produced exactly one bot reply or
\* exactly one escalation, never neither, and both only on the path remote
\* success with safety.crisis, which produces exactly one of each.
C7_OneOutcomePerTurn ==
  \A i \in 1..Len(turns) :
    Done(i) =>
      /\ turns[i].path \in {"local-crisis", "local", "remote", "remote-crisis",
                            "fallback"}
      /\ IF turns[i].path = "remote-crisis"
         THEN RepliesOf(turns[i]) = 1 /\ EscalationsOf(turns[i]) = 1
         ELSE IF turns[i].path = "local-crisis"
         THEN RepliesOf(turns[i]) = 0 /\ EscalationsOf(turns[i]) = 1
         ELSE RepliesOf(turns[i]) = 1 /\ EscalationsOf(turns[i]) = 0

C7_Witness ==
  \E i \in 1..Len(turns) :
    /\ Done(i) /\ turns[i].path = "remote-crisis"
    /\ RepliesOf(turns[i]) = 1 /\ EscalationsOf(turns[i]) = 1

\* C8: with the response delay firing and the remote call settling, every
\* submitted turn eventually completes, and the typing indicator is hidden
\* when it does.
C8_TurnsComplete ==
  \A i \in 1..MaxTurns :
    InFlight(i) ~> (Done(i) /\ typingHidden)

C8_Witness ==
  \E i \in 1..Len(turns) :
    /\ Done(i) /\ turns[i].path = "fallback" /\ typingHidden

C10_Original ==
  escalateToCrisis(escalateToCrisis(Session, now), now)
    = escalateToCrisis(Session, now)

\* C10 amended: escalating twice in a row leaves the overlay as escalating
\* once does (shown), but each call renders one more copy of the fixed
\* escalation message; transcript and timeline are untouched by either call.
C10_OverlayIdempotentMessageRepeated ==
  \A twice \in {escalateToCrisis(escalateToCrisis(Session, now), now)} :
    \A once \in {escalateToCrisis(Session, now)} :
      /\ once.hidden = FALSE
      /\ twice.hidden = once.hidden
      /\ Len(once.messages) = Len(messages) + 1
      /\ SubSeq(once.messages, 1, Len(messages)) = messages
      /\ Untimed(once.messages[Len(once.messages)]) = EscalationShown
      /\ twice.messages = Append(once.messages, once.messages[Len(once.messages)])
      /\ once.transcript = transcript /\ twice.transcript = transcript
      /\ once.emotionTimeline = emotionTimeline
      /\ twice.emotionTimeline = emotionTimeline

\* Two escalations in a row have happened: the last two messages are the
\* escalation message and the overlay is shown.
C10_Witness ==
  /\ Len(messages) >= 2
  /\ messages[Len(messages)].text = ESCALATION_MESSAGE
  /\ messages[Len(messages) - 1].text = ESCALATION_MESSAGE
  /\ ~crisisOverlayHidden


\* A message of the chat has an entry of the transcript with its sender and
\* its text.
Logged(m) ==
  \E j \in 1..Len(transcript) :
    transcript[j].sender = m.sender /\ transcript[j].text = m.text

\* C11 as stated: every message rendered in the chat (user message, reply,
\* escalation message, greeting, exercise message) has a transcript entry
\* that carries the message's sender and text.
C11_EveryMessageLogged ==
  \A k \in 1..Len(messages) : Logged(messages[k])

\* C12: the transcript is append-only: every step that changes it, whether a
\* turn, an exercise, an escalation or an export, adds exactly one entry at
\* the end and leaves the existing entries as they were, in their order.
C12_TranscriptAppendOnly ==
  [][\/ transcript' = transcript
     \/ /\ Len(transcript') = Len(transcript) + 1
        /\ SubSeq(transcript', 1, Len(transcript)) = transcript]_vars

\* The transcript was exported and an exercise then ran to its end, adding
\* entries after the export.
C12_Witness ==
  /\ downloads # <<>>
  /\ Len(downloads[1].content) < Len(transcript)
  /\ transcript[Len(transcript)].text = "Breathing complete"


\* Turn i ended in this step by an internal fault.
FaultEnds(i) ==
  /\ i \in 1..Len(turns')
  /\ turns'[i].pc = "done" /\ turns'[i].failure = "fault"
  /\ i \in 1..Len(turns) => turns[i].pc # "done"

\* C13 as stated: a turn in which an internal fault occurred, on the local
\* path or the remote path, ends with the generic apology as its only bot
\* reply, rendered and logged once, with the typing indicator cleared.
C13_FaultGivesApology ==
  /\ [](\A i \in 1..Len(turns) :
          (Done(i) /\ turns[i].failure = "fault") =>
            /\ UntimedSeq(turns[i].shown)
                 = <<[sender |-> "bot", text |-> REPLY_TROUBLE,
                      score |-> Scored[REPLY_TROUBLE].score,
                      emotion |-> Scored[REPLY_TROUBLE].emotion]>>
            /\ Len(turns[i].logged) = 1
            /\ turns[i].logged[1].text = REPLY_TROUBLE)
  /\ [][\A i \in 1..MaxTurns : FaultEnds(i) => typingHidden']_vars


\* The direct calls of fn made so far.
CallsOf(fn) == {k \in 1..Len(calls) : calls[k].fn = fn}

\* The characters cs contain the phrase, in some letter casing.
ContainsPhrase(cs, phrase) ==
  \E i \in 1..(Len(cs) - Len(Chars(phrase)) + 1) :
    \A j \in 1..Len(Chars(phrase)) :
      LowerChar(cs[i + j - 1]) = LowerChar(Chars(phrase)[j])

\* C14: detectCrisis(text) is true exactly when the text contains one of the
\* listed crisis phrases, in whatever letter casing; in particular it is
\* false for the empty text.
C14_CrisisIffPhrase ==
  \A k \in CallsOf("detectCrisis") :
    /\ calls[k].result =
         (\E n \in 1..Len(CRISIS_PATTERNS) :
            ContainsPhrase(TextOf(probe.words), CRISIS_PATTERNS[n]))
    /\ probe.words = <<>> => calls[k].result = FALSE

\* detectCrisis was called on a text that has a phrase in mixed casing, and
\* returned true.
C14_Witness ==
  /\ probe.words = <<"kill", "MYSELF">>
  /\ \E k \in CallsOf("detectCrisis") : calls[k].result = TRUE

\* The Response Selector's reply for a non-crisis text, by the buckets of
\* the claim tested in its order.
BucketReply(score, rnd) ==
  IF Le(score, Num(-60)) THEN REPLY_HIGH_CONCERN
  ELSE IF Lt(Num(-60), score) /\ Lt(score, Num(-20)) THEN REPLY_MODERATE_CONCERN
  ELSE IF Lt(Num(40), score) THEN REPLY_POSITIVE
  ELSE generics[rnd + 1]

InNeutralBucket(score) ==
  ~Le(score, Num(-60)) /\ ~Lt(score, Num(-20)) /\ ~Lt(Num(40), score)

\* C15: for a non-crisis text localReply returns the reply of the score's
\* bucket (score <= -0.6 high concern; -0.6 < score < -0.2 moderate concern;
\* score > 0.4 positive; any other score, -0.2 and 0.4 included, one of the
\* three neutral prompts), and two calls that differ only in the random
\* number return the same reply unless the score is in the neutral bucket.
C15_ReplyByBucket ==
  \A k \in CallsOf("localReply") :
    ~IsCrisis[probe.words[1]] =>
      /\ calls[k].result = <<BucketReply(probe.score, calls[k].rnd)>>
      /\ \A j \in CallsOf("localReply") :
           calls[j].result # calls[k].result =>
             /\ InNeutralBucket(probe.score)
             /\ calls[j].rnd # calls[k].rnd
             /\ {calls[j].result[1], calls[k].result[1]}
                  \subseteq {generics[n] : n \in 1..Len(generics)}

\* localReply was called twice on a score of exactly 0.4 with different
\* random numbers, and returned two different neutral prompts.
C15_Witness ==
  /\ Len(calls) = 2
  /\ probe.score = Num(40) /\ ~IsCrisis[probe.words[1]]
  /\ calls[1].result # calls[2].result
  /\ calls[1].result[1] = generics[calls[1].rnd + 1]

\* The tokens of the text that are keys of the lexicon, in text order.
MatchedTokens(cs) ==
  SelectSeq(MatchTokens(toLowerCase(cs), 1), LAMBDA tok : LexKeys(tok) # {})

EntryOf(tok) == LEXICON[CHOOSE key \in LexKeys(tok) : TRUE]

\* The emotion of the first of the matched tokens ms that has the largest
\* absolute valence; "neutral" when there is none.
DominantOf(ms) ==
  IF ms = <<>> THEN "neutral"
  ELSE LET first == CHOOSE k \in 1..Len(ms) :
                      /\ \A j \in 1..Len(ms) :
                           Abs(EntryOf(ms[j]).score) <= Abs(EntryOf(ms[k]).score)
                      /\ \A j \in 1..(k - 1) :
                           Abs(EntryOf(ms[j]).score) < Abs(EntryOf(ms[k]).score)
       IN  EntryOf(ms[first]).emotion

InRange(x) ==
  /\ Len(x) = 2
  /\ x[2] > 0
  /\ -100 * x[2] <= x[1]
  /\ x[1] <= 100 * x[2]

\* C17 as stated: for every text, the empty text included, scoreText's
\* result has a score in [-1, 1], and so has every timeline event and every
\* transcript entry.
C17_ScoreInRange ==
  /\ \A k \in CallsOf("scoreText") : InRange(calls[k].result.score)
  /\ \A k \in 1..Len(emotionTimeline) : InRange(emotionTimeline[k].score)
  /\ \A k \in 1..Len(transcript) : InRange(transcript[k].score)

FallbackReplies ==
  {SERVER_ANXIOUS_REPLY, SERVER_SAD_REPLY}
    \cup {serverGenerics[n] : n \in 1..Len(serverGenerics)}

\* C19: a request whose message matches a server crisis pattern is never
\* forwarded to the LLM client, configured or not: nothing is sent to the
\* client for it, and its one response is the fixed safe text with
\* safety.crisis = true.
C19_CrisisNeverForwarded ==
  \A i \in 1..Len(requests) :
    /\ \A k \in 1..Len(requests[i].forwarded) :
         ~detectCrisisServer(requests[i].forwarded[k])
    /\ (requests[i].message.type = "string"
          /\ detectCrisisServer(requests[i].message.value)) =>
         /\ requests[i].forwarded = <<>>
         /\ requests[i].pc = "done"
         /\ requests[i].responses = <<Reply200(SERVER_SAFE_TEXT, TRUE, TRUE)>>

\* With an LLM client configured, a crisis message was answered and another
\* message was forwarded.
C19_Witness ==
  /\ openaiClient
  /\ \E i, j \in 1..Len(requests) :
       /\ requests[i].message.type = "string"
       /\ detectCrisisServer(requests[i].message.value)
       /\ requests[i].responses # <<>>
       /\ requests[j].forwarded # <<>>

C21_ServerFlagsWhatClientFlags ==
  \A a, b \in 1..Len(calls) :
    (calls[a].fn = "detectCrisis" /\ calls[a].result
       /\ calls[b].fn = "detectCrisisServer") => calls[b].result

\* C22: in the earlier client every completed turn whose text matches a
\* crisis keyword called escalateToCrisis, whatever path it took.
C22_EarlyClientAlwaysEscalates ==
  \A i \in 1..Len(early.turns) :
    (early.turns[i].pc = "done" /\ Early_IsCrisis[early.turns[i].text]) =>
      early.turns[i].escalations >= 1

\* Request i was answered with the fallback reply: its message is valid and
\* no crisis, and no LLM reply was returned for it.
FallbackAnswered(i) ==
  /\ requests[i].pc = "done"
  /\ requests[i].llm # "replied"
  /\ ~InvalidMessage(requests[i].message)
  /\ ~IsCrisisServer[requests[i].message.value]

\* C23: two requests with the same message that are both answered with the
\* fallback reply (no LLM client, or the LLM call failed) receive the same
\* reply text.
C23_FallbackDeterministic ==
  \A i, j \in 1..Len(requests) :
    (FallbackAnswered(i) /\ FallbackAnswered(j)
       /\ requests[i].message = requests[j].message) =>
      requests[i].responses[1].reply = requests[j].responses[1].reply

\* The entries of the transcript that sender wrote, in order.
EntriesOf(sender) == SelectSeq(transcript, LAMBDA e : e.sender = sender)

\* C24: the transcript has one user entry per submitted turn, in submit
\* order, and each completed turn appended exactly one bot entry, later than
\* its user entry; a turn that has not completed appended none.  Apart from
\* the greeting these are all the bot entries there are.
C24_OneBotEntryPerTurn ==
  /\ Len(EntriesOf("user")) = Len(turns)
  /\ Len(EntriesOf("bot")) = 1 + Cardinality({i \in 1..Len(turns) : Done(i)})
  /\ \A i \in 1..Len(turns) :
       /\ EntriesOf("user")[i].text = turns[i].text
       /\ IF Done(i)
          THEN /\ Len(turns[i].logged) = 1
               /\ turns[i].logged[1].sender = "bot"
               /\ turns[i].logged[1].ts > EntriesOf("user")[i].ts
          ELSE turns[i].logged = <<>>

\* A turn answered with safety.crisis, which rendered two messages and
\* logged one, and a turn whose remote call failed have both completed.
C24_Witness ==
  \E i, j \in 1..Len(turns) :
    /\ Done(i) /\ turns[i].path = "remote-crisis"
    /\ Len(turns[i].shown) = 2 /\ Len(turns[i].logged) = 1
    /\ Done(j) /\ turns[j].path = "fallback" /\ Len(turns[j].logged) = 1

C26_HiddenIndicatorMeansIdle ==
  typingHidden => \A i \in 1..Len(turns) : ~InFlight(i)

=============================================================================
